---------------------------- MODULE Spec2Model ----------------------------
(***************************************************************************)
(* NightGuard: the background service worker (scheduling, sunset/sunrise,  *)
(* storage, messaging) and the rendering targets it broadcasts to.         *)
(*                                                                         *)
(* Representation of JavaScript values:                                    *)
(*   - a settings object is a function from field names to values;        *)
(*   - a time string "HH:MM" is a sequence of one-character strings;      *)
(*   - a coordinate is <<>> for null and <<x>> for the number x, with x    *)
(*     in thousandths of a degree;                                         *)
(*   - minutes computed by the solar estimator are floating point in the   *)
(*     code and thousandths of a minute here.                              *)
(***************************************************************************)
EXTENDS Integers, Sequences, FiniteSets, TLC

VARIABLES
    storage,      \* chrome.storage.local: [present, settings]
    now,          \* wall clock, minutes since local midnight
    today,        \* day of the year of the wall clock
    cycles,       \* in-flight invocations of updateFilter, by slot
    listening,    \* per tab: a content script listener is registered
    applied,      \* per tab: the last UPDATE_FILTER data the tab applied
    query,        \* the GET_STATUS request being handled
    update,       \* the UPDATE_SETTINGS request being handled
    toggle,       \* the TOGGLE request being handled
    force,        \* the FORCE_UPDATE request being handled
    loaded,       \* the tabs.onUpdated event being handled
    asking,       \* per tab: attempts its content script has left to get the status
    lastResponse, \* the last response sent by the message listener
    lastWrite,    \* who wrote the settings record last, and when
    installed,    \* onInstalled has run
    events,       \* number of events delivered to the extension so far
    timer,        \* the tick alarm: fired in this minute, minutes passed,
                  \* whether a cycle has failed since the start; how many
                  \* alarms named nightguard-tick exist, how often one was
                  \* created, how often that replaced an existing one, how
                  \* often the worker has started, and its alarms.get
    popup,        \* the popup page: open, its currentSettings, its
                  \* location button
    order,        \* the requests awaiting their answer, in the order they
                  \* were issued, and whether every answer so far came in
                  \* that order
    page,         \* per tab: which copy of the content script runs in it,
                  \* what that script has put on the document, and how often
                  \* the script was evaluated, registered its listener,
                  \* called requestStatus(3) and sent GET_STATUS
    evalIn,       \* inputs of the schedule evaluator under test
    evalOut       \* its result

vars == <<storage, now, today, cycles, listening, applied, query, update,
          toggle, force, loaded, asking, lastResponse, lastWrite, installed,
          events, timer, popup, order, page, evalIn, evalOut>>

---------------------------------------------------------------------------
(* Bounds of the model *)

NumTabs == 2
MaxCycles == 2
MaxEvents == 2
MaxMinutes == 2

---------------------------------------------------------------------------
(* JavaScript helpers *)

Null == <<>>
Num(x) == <<x>>
\* JavaScript truthiness of a number-or-null: null and 0 are falsy
Truthy(v) == v # Null /\ v # Num(0)

Max(a, b) == IF a >= b THEN a ELSE b
Min(a, b) == IF a <= b THEN a ELSE b

\* the % operator: the result takes the sign of the dividend
JSRem(a, b) == IF a >= 0 THEN a % b ELSE -((-a) % b)

Digits == <<"0", "1", "2", "3", "4", "5", "6", "7", "8", "9">>
DigitChar(d) == Digits[d + 1]
DigitVal(c) == CHOOSE d \in 0..9 : Digits[d + 1] = c

\* Number(str) for a string of decimal digits
RECURSIVE Number(_)
Number(s) ==
    IF s = <<>> THEN 0
    ELSE 10 * Number(SubSeq(s, 1, Len(s) - 1)) + DigitVal(s[Len(s)])

\* String(n).padStart(2, '0') for 0 <= n <= 99
PadStart2(n) ==
    IF n < 10 THEN <<"0", DigitChar(n)>>
    ELSE <<DigitChar(n \div 10), DigitChar(n % 10)>>

\* str.split(':') for a string holding one colon
SplitColon(s) ==
    LET i == CHOOSE k \in 1..Len(s) : s[k] = ":"
    IN  <<SubSeq(s, 1, i - 1), SubSeq(s, i + 1, Len(s))>>

\* the string "HH:MM" of an hour and a minute
HHMM(h, m) == PadStart2(h) \o <<":">> \o PadStart2(m)

---------------------------------------------------------------------------
(* Settings *)

DEFAULT_SETTINGS ==
    [ enabled          |-> TRUE,
      mode             |-> "bluelight",
      scheduleType     |-> "manual",
      startTime        |-> HHMM(21, 0),
      endTime          |-> HHMM(7, 0),
      latitude         |-> Null,
      longitude        |-> Null,
      intensity        |-> 80,
      currentIntensity |-> 0,
      isActive         |-> FALSE,
      manualActive     |-> FALSE ]

\* the spread with the operands exchanged: the defaults over the stored record
MergeDefaults_DefaultsWin(st) ==
    LET s == IF st.present THEN st.settings ELSE <<>>
    IN  [f \in DOMAIN DEFAULT_SETTINGS \cup DOMAIN s |->
            IF f \in DOMAIN DEFAULT_SETTINGS THEN DEFAULT_SETTINGS[f] ELSE s[f]]

\* { ...DEFAULT_SETTINGS, ...(result.settings || {}) }
MergeDefaults(st) ==
    LET s == IF st.present THEN st.settings ELSE <<>>
    IN  [f \in DOMAIN DEFAULT_SETTINGS \cup DOMAIN s |->
            IF f \in DOMAIN s THEN s[f] ELSE DEFAULT_SETTINGS[f]]

---------------------------------------------------------------------------
(* Time utilities *)

timeToMinutes(timeStr) ==
    LET parts == SplitColon(timeStr)
    IN  Number(parts[1]) * 60 + Number(parts[2])

\* isInActiveWindow with the end of a same-day window included
isInActiveWindow_EndInclusive(startTime, endTime, nowMin) ==
    LET start == timeToMinutes(startTime)
        end   == timeToMinutes(endTime)
    IN  IF start <= end
        THEN nowMin >= start /\ nowMin <= end
        ELSE nowMin >= start \/ nowMin < end

\* isInActiveWindow with the two halves of a wrapping window conjoined
isInActiveWindow_WrapAnd(startTime, endTime, nowMin) ==
    LET start == timeToMinutes(startTime)
        end   == timeToMinutes(endTime)
    IN  IF start <= end
        THEN nowMin >= start /\ nowMin < end
        ELSE nowMin >= start /\ nowMin < end

\* isInActiveWindow taking a window whose ends are equal as one that wraps
isInActiveWindow_EqualWraps(startTime, endTime, nowMin) ==
    LET start == timeToMinutes(startTime)
        end   == timeToMinutes(endTime)
    IN  IF start < end
        THEN nowMin >= start /\ nowMin < end
        ELSE nowMin >= start \/ nowMin < end

\* isInActiveWindow, with getCurrentMinutes() passed in as nowMin
isInActiveWindow(startTime, endTime, nowMin) ==
    LET start == timeToMinutes(startTime)
        end   == timeToMinutes(endTime)
    IN  IF start <= end
        THEN nowMin >= start /\ nowMin < end
        ELSE nowMin >= start \/ nowMin < end

\* calculateCurrentIntensity without the window test
calculateCurrentIntensity_Always(settings, nowMin) == settings.intensity

calculateCurrentIntensity(settings, nowMin) ==
    IF isInActiveWindow(settings.startTime, settings.endTime, nowMin)
    THEN settings.intensity
    ELSE 0

---------------------------------------------------------------------------
(* Sunset/sunrise calculation *)

\* Math.cos/Math.sin part of calculateSunTimes: the cosine of the hour angle,
\* in millionths, for a latitude (thousandths of a degree) and a day of the
\* year, tabulated from the double-precision formula
cosHourAngle(lat, dayOfYear) ==
    CASE lat = 0     /\ dayOfYear = 172 -> -15847
      [] lat = 0     /\ dayOfYear = 355 -> -15847
      [] lat = 51500 /\ dayOfYear = 172 -> -570764
      [] lat = 51500 /\ dayOfYear = 355 -> 519874
      [] lat = 89000 /\ dayOfYear = 172 -> -25757929
      [] lat = 89000 /\ dayOfYear = 355 -> 23942952
      [] lat = -89000 /\ dayOfYear = 172 -> 23941926
      [] lat = -89000 /\ dayOfYear = 355 -> -25758967
      \* at the poles cos(lat * rad) is 6.1e-17, not 0, and the quotient is of
      \* the order of 7e15: entered as 2000 in magnitude, with its sign
      [] lat = 90000 /\ dayOfYear = 172 -> -2000000000
      [] lat = 90000 /\ dayOfYear = 355 -> 2000000000
      [] lat = -90000 /\ dayOfYear = 172 -> 2000000000
      [] lat = -90000 /\ dayOfYear = 355 -> -2000000000

\* Math.max(-1, Math.min(1, cosHourAngle)), in millionths
clampedCos(c) == Max(-1000000, Min(1000000, c))

\* Math.acos(clampedCos) / rad, in thousandths of a degree
hourAngle(c) ==
    CASE c = -15847   -> 90908
      [] c = -570764  -> 124804
      [] c = 519874   -> 58676
      [] c = -1000000 -> 180000
      [] c = 1000000  -> 0

\* date.getTimezoneOffset() of the machine's zone (minutes to add to local
\* time to get UTC): a zone on UTC in winter and one hour ahead in summer
getTimezoneOffset(dayOfYear) == IF dayOfYear = 172 THEN -60 ELSE 0

\* toTimeString wrapping negative values only
toTimeString_WrapsNegativesOnly(mins) ==
    LET wrapped == IF mins >= 0 THEN mins
                   ELSE JSRem(JSRem(mins, 1440000) + 1440000, 1440000)
        h == wrapped \div 60000
        m == JSRem(wrapped, 60000) \div 1000
    IN  HHMM(h, m)

\* toTimeString, for mins in thousandths of a minute
toTimeString(mins) ==
    LET wrapped == JSRem(JSRem(mins, 1440000) + 1440000, 1440000)
        h == wrapped \div 60000
        m == JSRem(wrapped, 60000) \div 1000
    IN  HHMM(h, m)

calculateSunTimes(lat, lng, dayOfYear) ==
    LET ha == hourAngle(clampedCos(cosHourAngle(lat, dayOfYear)))
        solarNoon == 720000 - 4 * lng
        sunriseMinutes == solarNoon - ha * 4
        sunsetMinutes  == solarNoon + ha * 4
        timezoneOffset == getTimezoneOffset(dayOfYear) * 1000
    IN  [ sunrise |-> toTimeString(sunriseMinutes - timezoneOffset),
          sunset  |-> toTimeString(sunsetMinutes - timezoneOffset) ]

---------------------------------------------------------------------------
(* The computations of the handlers, as functions of the record read *)

\* the condition of the 'Auto sunset/sunrise' branch
useSunTimes(settings) ==
    /\ settings.scheduleType = "auto"
    /\ Truthy(settings.latitude)
    /\ Truthy(settings.longitude)

\* settings.startTime = sunTimes.sunset; settings.endTime = sunTimes.sunrise
withSunTimes(settings, dayOfYear) ==
    LET sunTimes == calculateSunTimes(settings.latitude[1],
                                      settings.longitude[1], dayOfYear)
    IN  [settings EXCEPT !.startTime = sunTimes.sunset,
                         !.endTime = sunTimes.sunrise]

\* updateFilter without the manual override
updateFilterSettings_NoOverride(settings, nowMin, dayOfYear) ==
    IF ~settings.enabled
    THEN [settings EXCEPT !.currentIntensity = 0, !.isActive = FALSE]
    ELSE LET s1 == IF useSunTimes(settings)
                   THEN withSunTimes(settings, dayOfYear)
                   ELSE settings
             currentIntensity == calculateCurrentIntensity(s1, nowMin)
         IN  [s1 EXCEPT !.currentIntensity = currentIntensity,
                        !.isActive = currentIntensity > 0]

\* updateFilter stepping the stored intensity towards its target by 40
updateFilterSettings_Ramp(settings, nowMin, dayOfYear) ==
    IF ~settings.enabled
    THEN [settings EXCEPT !.currentIntensity = 0, !.isActive = FALSE]
    ELSE LET s1 == IF useSunTimes(settings)
                   THEN withSunTimes(settings, dayOfYear)
                   ELSE settings
             target ==
                 IF s1.manualActive THEN s1.intensity
                 ELSE calculateCurrentIntensity(s1, nowMin)
             currentIntensity ==
                 IF target > s1.currentIntensity
                 THEN Min(target, s1.currentIntensity + 40)
                 ELSE target
         IN  [s1 EXCEPT !.currentIntensity = currentIntensity,
                        !.isActive = currentIntensity > 0]

\* updateFilter leaving isActive as it read it when the filter is enabled
updateFilterSettings_ActiveKept(settings, nowMin, dayOfYear) ==
    IF ~settings.enabled
    THEN [settings EXCEPT !.currentIntensity = 0, !.isActive = FALSE]
    ELSE LET s1 == IF useSunTimes(settings)
                   THEN withSunTimes(settings, dayOfYear)
                   ELSE settings
             currentIntensity ==
                 IF s1.manualActive THEN s1.intensity
                 ELSE calculateCurrentIntensity(s1, nowMin)
         IN  [s1 EXCEPT !.currentIntensity = currentIntensity]

\* updateFilter following the schedule only while the popup's timer is set
updateFilterSettings_TimerGated(settings, nowMin, dayOfYear) ==
    IF ~settings.enabled
    THEN [settings EXCEPT !.currentIntensity = 0, !.isActive = FALSE]
    ELSE LET s1 == IF useSunTimes(settings)
                   THEN withSunTimes(settings, dayOfYear)
                   ELSE settings
             timerSet == "timerEnabled" \in DOMAIN s1 /\ s1.timerEnabled
             currentIntensity ==
                 IF s1.manualActive THEN s1.intensity
                 ELSE IF s1.scheduleType = "manual" /\ ~timerSet THEN 0
                 ELSE calculateCurrentIntensity(s1, nowMin)
         IN  [s1 EXCEPT !.currentIntensity = currentIntensity,
                        !.isActive = currentIntensity > 0]

\* updateFilter: the settings object it passes to chrome.storage.local.set
updateFilterSettings(settings, nowMin, dayOfYear) ==
    IF ~settings.enabled
    THEN [settings EXCEPT !.currentIntensity = 0, !.isActive = FALSE]
    ELSE LET s1 == IF useSunTimes(settings)
                   THEN withSunTimes(settings, dayOfYear)
                   ELSE settings
             currentIntensity ==
                 IF s1.manualActive THEN s1.intensity
                 ELSE calculateCurrentIntensity(s1, nowMin)
         IN  [s1 EXCEPT !.currentIntensity = currentIntensity,
                        !.isActive = currentIntensity > 0]

\* the UPDATE_FILTER message with enabled as stored
filterMessage_EnabledAsStored(settings, currentIntensity) ==
    [type |-> "UPDATE_FILTER", mode |-> settings.mode,
     intensity |-> currentIntensity, enabled |-> settings.enabled]

\* applyToAllTabs: the UPDATE_FILTER message
filterMessage(settings, currentIntensity) ==
    [ type      |-> "UPDATE_FILTER",
      mode      |-> settings.mode,
      intensity |-> currentIntensity,
      enabled   |-> settings.enabled /\ currentIntensity > 0 ]

\* GET_STATUS testing the manual override before the master switch
getStatusSettings_ManualFirst(settings, nowMin, dayOfYear) ==
    LET s1 == IF useSunTimes(settings)
              THEN withSunTimes(settings, dayOfYear)
              ELSE settings
        currentIntensity ==
            IF s1.manualActive THEN s1.intensity
            ELSE IF ~s1.enabled THEN 0
            ELSE calculateCurrentIntensity(s1, nowMin)
    IN  [s1 EXCEPT !.currentIntensity = currentIntensity,
                   !.isActive = currentIntensity > 0]

\* GET_STATUS answering with the derived fields as stored
getStatusSettings_Cached(settings, nowMin, dayOfYear) ==
    IF useSunTimes(settings)
    THEN withSunTimes(settings, dayOfYear)
    ELSE settings

\* GET_STATUS: the settings object of the response
getStatusSettings(settings, nowMin, dayOfYear) ==
    LET s1 == IF useSunTimes(settings)
              THEN withSunTimes(settings, dayOfYear)
              ELSE settings
        currentIntensity ==
            IF ~s1.enabled THEN 0
            ELSE IF s1.manualActive THEN s1.intensity
            ELSE calculateCurrentIntensity(s1, nowMin)
    IN  [s1 EXCEPT !.currentIntensity = currentIntensity,
                   !.isActive = currentIntensity > 0]

---------------------------------------------------------------------------
(* The environment: tabs, clock, and the records a client may send *)

\* tab 0 is a chrome:// page, tabs 1..NumTabs are web pages
Tabs == 0..NumTabs
tabUrl(t) == IF t = 0 THEN "chrome://extensions" ELSE "https://example.org"

\* tab.url && !startsWith('chrome://') && !startsWith('chrome-extension://')
eligible(t) == tabUrl(t) = "https://example.org"

\* chrome.tabs.query({})
allTabs == [i \in 1..(NumTabs + 1) |-> i - 1]

\* the instants the clock is sampled at: 06:59, 08:00, 23:00
Clock == {6 * 60 + 59, 8 * 60, 23 * 60}
\* the days of the year: the June and the December solstice
Days == {172, 355}

\* senders of GET_STATUS: 0 is the popup, t > 0 the content script of tab t
Requesters == 0..NumTabs

\* requestStatus(3): the retries of a content script after its first attempt
Retries == 3

Coordinates == { <<Null, Null>>, <<Num(51500), Num(-120)>>, <<Num(0), Num(-120)>> }

\* the records UPDATE_SETTINGS may carry: every combination of the user fields
AllSettings ==
    { [DEFAULT_SETTINGS EXCEPT
          !.enabled = e, !.manualActive = ma, !.scheduleType = st,
          !.latitude = co[1], !.longitude = co[2], !.intensity = i] :
        e \in BOOLEAN, ma \in BOOLEAN, st \in {"manual", "auto"},
        co \in Coordinates, i \in {40, 80} }

\* a few of them, for the runs in which handlers overlap
SomeSettings ==
    { DEFAULT_SETTINGS,
      [DEFAULT_SETTINGS EXCEPT !.enabled = FALSE, !.manualActive = TRUE],
      [DEFAULT_SETTINGS EXCEPT !.scheduleType = "auto",
          !.latitude = Num(51500), !.longitude = Num(-120), !.intensity = 40] }

NoFilter == [mode |-> "none", intensity |-> 0, enabled |-> FALSE]
NoCycle == [pc |-> "idle"]
Idle == [pc |-> "idle"]
NoResponse == [type |-> "none"]
NoWrite == [by |-> "none"]
NoEval == [start |-> <<>>, end |-> <<>>, now |-> 0]
NoResult == [done |-> FALSE]
\* the worker has started once and has created the alarm
NoTimer == [ticked |-> FALSE, minutes |-> 0, failed |-> FALSE,
            alarms |-> 1, created |-> 1, resets |-> 0, startups |-> 1,
            check |-> "idle"]

\* let currentSettings = {}
NoSettings == [f \in {} |-> Null]
\* no request awaits its answer
NoOrder == [queue |-> <<>>, inOrder |-> TRUE]
\* a document without the overlay and without the style elements
NoTreatment == [opacity |-> 0, background |-> <<>>,
                darkmode |-> <<>>, filtermode |-> <<>>]
\* no content script has run in any tab: window.__nightguard_loaded is not
\* set (script 0), no listener is registered and no GET_STATUS was sent
NoPage ==
    [t \in Tabs |-> [script |-> 0, dom |-> NoTreatment, evaluations |-> 0,
                     listeners |-> 0, pulls |-> 0, attempts |-> 0]]
\* the popup page is not open
NoPopup == [open |-> FALSE, settings |-> NoSettings, button |-> "detect"]

---------------------------------------------------------------------------
(* Initial state: the service worker script has been evaluated on a fresh  *)
(* profile; the updateFilter() call at the end of the script is in flight  *)

Boot(minute, day) ==
    /\ storage = [present |-> FALSE]
    /\ now = minute
    /\ today = day
    /\ cycles = [s \in 1..MaxCycles |->
                    IF s = 1
                    THEN [pc |-> "get",
                          settings |-> MergeDefaults([present |-> FALSE])]
                    ELSE NoCycle]
    /\ listening = [t \in Tabs |-> FALSE]
    /\ applied = [t \in Tabs |-> NoFilter]
    /\ query = Idle
    /\ update = Idle
    /\ toggle = Idle
    /\ force = Idle
    /\ loaded = Idle
    /\ asking = [t \in Tabs |-> 0]
    /\ lastResponse = NoResponse
    /\ lastWrite = NoWrite
    /\ installed = FALSE
    /\ events = 0
    /\ timer = NoTimer
    /\ popup = NoPopup
    /\ order = NoOrder
    /\ page = NoPage
    /\ evalIn = NoEval
    /\ evalOut = NoResult

\* the worker starts at 23:00 on the December solstice
Init == Boot(23 * 60, 355)

\* the worker starts at any sampled instant of either day
InitSeq == \E minute \in Clock, day \in Days : Boot(minute, day)

---------------------------------------------------------------------------
(* updateFilter.  chrome.storage.local serves the requests of the worker   *)
(* in the order they are issued, so a read returns the record as it is     *)
(* when the read is issued and a write takes effect when it is issued;     *)
(* the handler itself continues later, when the promise resolves.          *)

FreeSlots == {s \in 1..MaxCycles : cycles[s].pc = "idle"}
FirstFree == CHOOSE s \in FreeSlots : \A r \in FreeSlots : s <= r

\* a call of updateFilter() with the storage as st: it runs up to its first
\* await, the storage read, whose result is merged over the defaults
StartCycleOn(st) ==
    /\ FreeSlots # {}
    /\ cycles' = [cycles EXCEPT ![FirstFree] =
          [pc |-> "get", settings |-> MergeDefaults(st)]]

StartCycle == StartCycleOn(storage)

\* eligible tabs of chrome.tabs.query({}), in the order of the for loop
sendList == SelectSeq(allTabs, eligible)

\* cycle s takes a step; when it was its last and FORCE_UPDATE awaits this
\* cycle, the promise resolves: sendResponse({ success: true })
Resolve(s, last) ==
    IF last /\ force.pc = "wait" /\ force.slot = s
    THEN /\ force' = Idle
         /\ lastResponse' = [type |-> "FORCE_UPDATE", success |-> TRUE]
    ELSE UNCHANGED <<force, lastResponse>>

\* the fields of a record that the user sets, as a reader finds them
UserFields(r) ==
    [f \in {"enabled", "mode", "scheduleType", "startTime", "endTime",
            "latitude", "longitude", "intensity", "manualActive"} |->
        IF f \in DOMAIN r THEN r[f] ELSE DEFAULT_SETTINGS[f]]

\* history of the record kept for the properties: cycle s writes, having
\* read cycles[s].settings.  repeat: it read what the cycle before it wrote,
\* in the same minute.  lost: it read the record before an UPDATE_SETTINGS
\* wrote other user fields, which it now overwrites (or it read the record
\* written by such a cycle)
cycleWrite(s, msg) ==
    [by |-> "cycle", now |-> now, msg |-> msg,
     repeat |-> /\ storage.present
                /\ cycles[s].settings = storage.settings
                /\ lastWrite.by = "cycle"
                /\ lastWrite.now = now,
     lost |-> \/ /\ lastWrite.by = "update"
                 /\ UserFields(storage.settings)
                        # UserFields(cycles[s].settings)
              \/ /\ lastWrite.by = "cycle"
                 /\ lastWrite.lost
                 /\ cycles[s].settings = storage.settings]

\* updateFilter writing only when the record is still the one it read
UF_Continue_Checked(s) ==
    /\ cycles[s].pc = "get"
    /\ LET out == updateFilterSettings(cycles[s].settings, now, today)
           msg == filterMessage(out, out.currentIntensity)
           same == MergeDefaults(storage) = cycles[s].settings
       IN  /\ storage' = IF same THEN [present |-> TRUE, settings |-> out]
                         ELSE storage
           /\ cycles' = [cycles EXCEPT ![s] =
                 [pc |-> "send", settings |-> out,
                  msg |-> msg, todo |-> sendList]]
           /\ lastWrite' = IF same THEN cycleWrite(s, msg) ELSE lastWrite
    /\ Resolve(s, FALSE)
    /\ UNCHANGED <<now, today, listening, applied, query, update, toggle,
                   loaded, installed, asking,
                   evalIn, evalOut>>

\* the read resolves: compute the derived fields, write the record back,
\* and (the write and chrome.tabs.query resolved) build the message
UF_Continue(s) ==
    /\ cycles[s].pc = "get"
    /\ LET out == updateFilterSettings(cycles[s].settings, now, today)
           msg == filterMessage(out, out.currentIntensity)
       IN  /\ storage' = [present |-> TRUE, settings |-> out]
           /\ cycles' = [cycles EXCEPT ![s] =
                 IF sendList = <<>> THEN NoCycle
                 ELSE [pc |-> "send", settings |-> out,
                       msg |-> msg, todo |-> sendList]]
           /\ lastWrite' = cycleWrite(s, msg)
    /\ Resolve(s, sendList = <<>>)
    /\ UNCHANGED <<now, today, listening, applied, query, update, toggle,
                   loaded, installed, asking,
                   evalIn, evalOut>>

\* a failed write after which updateFilter would go on to the broadcast
UF_Fail_Broadcasts(s) ==
    /\ cycles[s].pc = "get"
    /\ LET out == updateFilterSettings(cycles[s].settings, now, today)
           msg == filterMessage(out, out.currentIntensity)
       IN  cycles' = [cycles EXCEPT ![s] =
              [pc |-> "send", settings |-> out, msg |-> msg,
               todo |-> sendList]]
    /\ UNCHANGED <<storage, now, today, listening, applied, query, update,
                   toggle, force, loaded, asking, lastResponse, lastWrite,
                   installed, evalIn, evalOut>>

\* chrome.storage.local.get or .set of cycle s rejects: the await throws,
\* updateFilter has no handler for it, so its promise rejects and nothing
\* after the failed request runs (a FORCE_UPDATE waiting for it gets no
\* response)
UF_Fail(s) ==
    /\ cycles[s].pc = "get"
    /\ cycles' = [cycles EXCEPT ![s] = NoCycle]
    /\ force' = IF force.pc = "wait" /\ force.slot = s THEN Idle ELSE force
    /\ UNCHANGED <<storage, now, today, listening, applied, query, update,
                   toggle, loaded, asking, lastResponse, lastWrite,
                   installed, evalIn, evalOut>>

\* the content script's listener: updateFilter(message)
applyMessage(msg) ==
    [mode |-> msg.mode, intensity |-> msg.intensity, enabled |-> msg.enabled]

\* the eligible tabs to which cycle c has not issued its send yet: those
\* behind the tab whose send it awaits
notSentYet(c) == IF c.pc = "send" THEN Tail(c.todo) ELSE <<>>

\* the loop of applyToAllTabs without the try/catch around the send: a
\* rejected send ends the loop
UF_Send_AbortOnFailure(s) ==
    /\ cycles[s].pc = "send"
    /\ LET c == cycles[s]
           t == Head(c.todo)
           last == Tail(c.todo) = <<>> \/ ~listening[t]
       IN  /\ applied' = IF listening[t]
                         THEN [applied EXCEPT ![t] = applyMessage(c.msg)]
                         ELSE applied
           /\ cycles' = [cycles EXCEPT ![s] =
                 IF last THEN NoCycle ELSE [c EXCEPT !.todo = Tail(c.todo)]]
           /\ Resolve(s, last)
    /\ UNCHANGED <<storage, now, today, listening, query, update, toggle,
                   loaded, lastWrite, installed, asking,
                   evalIn, evalOut>>

\* cycle s awaits chrome.tabs.sendMessage for Head(todo); the tabs after it
\* in todo have not been sent to yet.  The send resolves or rejects: the tab
\* has applied the message, or there is no receiver and the rejection is
\* swallowed; then the send to the next tab is issued
UF_Send(s) ==
    /\ cycles[s].pc = "send"
    /\ LET c == cycles[s]
           t == Head(c.todo)
       IN  /\ applied' = IF listening[t]
                         THEN [applied EXCEPT ![t] = applyMessage(c.msg)]
                         ELSE applied
           /\ cycles' = [cycles EXCEPT ![s] =
                 IF Tail(c.todo) = <<>> THEN NoCycle
                 ELSE [c EXCEPT !.todo = Tail(c.todo)]]
           /\ Resolve(s, Tail(c.todo) = <<>>)
    /\ UNCHANGED <<storage, now, today, listening, query, update, toggle,
                   loaded, lastWrite, installed, asking,
                   evalIn, evalOut>>

\* chrome.alarms.onAlarm: the 'nightguard-tick' alarm fires
Tick ==
    /\ StartCycle
    /\ UNCHANGED <<storage, now, today, listening, applied, query, update,
                   lastResponse, lastWrite, installed, toggle, force,
                   loaded, asking,
                   evalIn, evalOut>>

---------------------------------------------------------------------------
(* chrome.runtime.onMessage: GET_STATUS *)

\* the message arrives; chrome.storage.local.get('settings') is issued and
\* its result merged over the defaults
GS_Receive(from) ==
    /\ query.pc = "idle"
    /\ from = 0 \/ (listening[from] /\ asking[from] > 0)
    /\ query' = [pc |-> "get", from |-> from,
                 settings |-> MergeDefaults(storage)]
    /\ asking' = IF from = 0 THEN asking ELSE [asking EXCEPT ![from] = 0]
    /\ UNCHANGED <<storage, now, today, cycles, listening, applied, update,
                   lastResponse, lastWrite, installed, toggle, force,
                   loaded, evalIn, evalOut>>

\* a callback that asks again without counting its retries down
GS_Lost_KeepsRetrying(t) ==
    /\ listening[t]
    /\ asking[t] > 0
    /\ UNCHANGED <<storage, now, today, cycles, listening, applied, query,
                   update, toggle, force, loaded, lastResponse, lastWrite,
                   installed, asking, evalIn, evalOut>>

\* the GET_STATUS of tab t does not reach the worker: the callback sees
\* chrome.runtime.lastError and, with retries left, asks again 500 ms later
GS_Lost(t) ==
    /\ listening[t]
    /\ asking[t] > 0
    /\ asking' = [asking EXCEPT ![t] = asking[t] - 1]
    /\ UNCHANGED <<storage, now, today, cycles, listening, applied, query,
                   update, toggle, force, loaded, lastResponse, lastWrite,
                   installed, evalIn, evalOut>>

\* requestStatus taking enabled from the response as it is
statusFilter_EnabledAsStored(s) ==
    [mode |-> s.mode, intensity |-> s.currentIntensity, enabled |-> s.enabled]

\* content.js requestStatus: the filter data derived from a response
statusFilter(s) ==
    [mode |-> s.mode, intensity |-> s.currentIntensity,
     enabled |-> s.enabled /\ s.currentIntensity > 0]

\* a GET_STATUS handler that stores the record it has recomputed
GS_Respond_Persists ==
    /\ query.pc = "get"
    /\ LET out == getStatusSettings(query.settings, now, today)
       IN  /\ lastResponse' =
                 [type |-> "GET_STATUS", settings |-> out]
           /\ storage' = [present |-> TRUE, settings |-> out]
           /\ applied' = IF query.from # 0 /\ listening[query.from]
                         THEN [applied EXCEPT ![query.from] = statusFilter(out)]
                         ELSE applied
    /\ query' = Idle
    /\ UNCHANGED <<now, today, cycles, listening, update,
                   lastWrite, installed, toggle, force,
                   loaded, asking,
                   evalIn, evalOut>>

\* the read resolves: recompute and sendResponse({ settings }); a content
\* script that asked applies the answer
GS_Respond ==
    /\ query.pc = "get"
    /\ LET out == getStatusSettings(query.settings, now, today)
       IN  /\ lastResponse' =
                 [type |-> "GET_STATUS", settings |-> out]
           /\ applied' = IF query.from # 0 /\ listening[query.from]
                         THEN [applied EXCEPT ![query.from] = statusFilter(out)]
                         ELSE applied
    /\ query' = Idle
    /\ UNCHANGED <<storage, now, today, cycles, listening, update,
                   lastWrite, installed, toggle, force,
                   loaded, asking,
                   evalIn, evalOut>>

---------------------------------------------------------------------------
(* chrome.runtime.onMessage: UPDATE_SETTINGS *)

\* the message arrives; chrome.storage.local.set({ settings }) is issued
US_Receive(settings) ==
    /\ update.pc = "idle"
    /\ update' = [pc |-> "set"]
    /\ storage' = [present |-> TRUE, settings |-> settings]
    /\ lastWrite' = [by |-> "update"]
    /\ UNCHANGED <<now, today, cycles, listening, applied, query,
                   lastResponse, installed, toggle, force,
                   loaded, asking,
                   evalIn, evalOut>>

\* UPDATE_SETTINGS answering without the call of updateFilter()
US_Continue_NoReconcile ==
    /\ update.pc = "set"
    /\ lastResponse' = [type |-> "UPDATE_SETTINGS", success |-> TRUE]
    /\ update' = Idle
    /\ UNCHANGED <<storage, now, today, cycles, listening, applied, query,
                   lastWrite, installed, toggle, force,
                   loaded, asking,
                   evalIn, evalOut>>

\* the write resolves: updateFilter(); sendResponse({ success: true })
US_Continue ==
    /\ update.pc = "set"
    /\ StartCycle
    /\ lastResponse' = [type |-> "UPDATE_SETTINGS", success |-> TRUE]
    /\ update' = Idle
    /\ UNCHANGED <<storage, now, today, listening, applied, query,
                   lastWrite, installed, toggle, force,
                   loaded, asking,
                   evalIn, evalOut>>

---------------------------------------------------------------------------
(* chrome.runtime.onMessage: TOGGLE *)

\* the message arrives; chrome.storage.local.get('settings') is issued
TG_Receive ==
    /\ toggle.pc = "idle"
    /\ toggle' = [pc |-> "get", settings |-> MergeDefaults(storage)]
    /\ UNCHANGED <<storage, now, today, cycles, listening, applied, query,
                   update, force, loaded, lastResponse, lastWrite, installed,
                   asking,
                   evalIn, evalOut>>

\* the read resolves: settings.enabled = !settings.enabled, and
\* chrome.storage.local.set({ settings }) is issued
TG_Set ==
    /\ toggle.pc = "get"
    /\ LET out == [toggle.settings EXCEPT !.enabled = ~toggle.settings.enabled]
       IN  /\ storage' = [present |-> TRUE, settings |-> out]
           /\ toggle' = [pc |-> "set", settings |-> out]
    /\ lastWrite' = [by |-> "toggle"]
    /\ UNCHANGED <<now, today, cycles, listening, applied, query, update,
                   force, loaded, lastResponse, installed, asking,
                   evalIn, evalOut>>

\* the write resolves: updateFilter(); sendResponse({ settings })
TG_Respond ==
    /\ toggle.pc = "set"
    /\ StartCycle
    /\ lastResponse' = [type |-> "TOGGLE", settings |-> toggle.settings]
    /\ toggle' = Idle
    /\ UNCHANGED <<storage, now, today, listening, applied, query, update,
                   force, loaded, lastWrite, installed, asking,
                   evalIn, evalOut>>

---------------------------------------------------------------------------
(* chrome.runtime.onMessage: FORCE_UPDATE *)

\* the message arrives: updateFilter().then(() => sendResponse(...)); the
\* response is sent by the last step of that cycle
FU_Receive ==
    /\ force.pc = "idle"
    /\ StartCycle
    /\ force' = [pc |-> "wait", slot |-> FirstFree]
    /\ UNCHANGED <<storage, now, today, listening, applied, query, update,
                   toggle, loaded, lastResponse, lastWrite, installed,
                   asking,
                   evalIn, evalOut>>

---------------------------------------------------------------------------
(* chrome.tabs.onUpdated *)

\* a web tab reports status 'complete'; chrome.storage.local.get is issued
TU_Receive(t) ==
    /\ eligible(t)
    /\ loaded.pc = "idle"
    /\ loaded' = [pc |-> "get", tab |-> t, settings |-> MergeDefaults(storage)]
    /\ UNCHANGED <<storage, now, today, cycles, listening, applied, query,
                   update, toggle, force, lastResponse, lastWrite, installed,
                   asking,
                   evalIn, evalOut>>

\* the intensity the tab-load handler computes, on the stored window
tabIntensity(settings, nowMin) ==
    IF settings.manualActive
    THEN settings.intensity
    ELSE calculateCurrentIntensity(settings, nowMin)

\* the read resolves: when enabled and the intensity is positive, the tab
\* is sent UPDATE_FILTER with enabled: true
TU_Continue ==
    /\ loaded.pc = "get"
    /\ LET r == loaded.settings
           currentIntensity == tabIntensity(r, now)
           msg == [type |-> "UPDATE_FILTER", mode |-> r.mode,
                   intensity |-> currentIntensity, enabled |-> TRUE]
       IN  applied' = IF r.enabled /\ currentIntensity > 0
                         /\ listening[loaded.tab]
                      THEN [applied EXCEPT ![loaded.tab] = applyMessage(msg)]
                      ELSE applied
    /\ loaded' = Idle
    /\ UNCHANGED <<storage, now, today, cycles, listening, query, update,
                   toggle, force, lastResponse, lastWrite, installed,
                   asking,
                   evalIn, evalOut>>

---------------------------------------------------------------------------
(* chrome.runtime.onInstalled *)

\* onInstalled writing the defaults whether or not a record exists
OnInstalled_AlwaysDefaults ==
    /\ ~installed
    /\ installed' = TRUE
    /\ storage' = [present |-> TRUE, settings |-> DEFAULT_SETTINGS]
    /\ lastWrite' = [by |-> "install"]
    /\ listening' = [t \in Tabs |-> listening[t] \/ eligible(t)]
    /\ asking' = [t \in Tabs |->
                    IF eligible(t) /\ ~listening[t] THEN Retries + 1
                    ELSE asking[t]]
    /\ StartCycleOn(storage')
    /\ UNCHANGED <<now, today, applied, query, update, lastResponse,
                   toggle, force, loaded, evalIn, evalOut>>

\* write the defaults when no record exists, inject content.js into the
\* open web tabs, then updateFilter()
OnInstalled ==
    /\ ~installed
    /\ installed' = TRUE
    /\ storage' = IF storage.present THEN storage
                  ELSE [present |-> TRUE, settings |-> DEFAULT_SETTINGS]
    /\ lastWrite' = IF storage.present THEN lastWrite ELSE [by |-> "install"]
    /\ listening' = [t \in Tabs |-> listening[t] \/ eligible(t)]
    /\ asking' = [t \in Tabs |->
                    IF eligible(t) /\ ~listening[t] THEN Retries + 1
                    ELSE asking[t]]
    /\ StartCycleOn(storage')
    /\ UNCHANGED <<now, today, applied, query, update, lastResponse,
                   toggle, force, loaded, evalIn, evalOut>>

---------------------------------------------------------------------------
(* The environment *)

\* a content script that registers its listener and never asks
PageLoad_NoPull(t) ==
    /\ eligible(t)
    /\ ~listening[t]
    /\ listening' = [listening EXCEPT ![t] = TRUE]
    /\ applied' = [applied EXCEPT ![t] = NoFilter]
    /\ UNCHANGED <<storage, now, today, cycles, query, update, lastResponse,
                   lastWrite, installed, toggle, force, loaded, asking,
                   evalIn, evalOut>>

\* the content script of a web page starts: it registers the listener and
\* calls requestStatus(3), which sends GET_STATUS
PageLoad(t) ==
    /\ eligible(t)
    /\ ~listening[t]
    /\ listening' = [listening EXCEPT ![t] = TRUE]
    /\ applied' = [applied EXCEPT ![t] = NoFilter]
    /\ asking' = [asking EXCEPT ![t] = Retries + 1]
    /\ UNCHANGED <<storage, now, today, cycles, query, update, lastResponse,
                   lastWrite, installed, toggle, force, loaded,
                   evalIn, evalOut>>

\* the tab navigates away: the document and its content script are gone
Navigate(t) ==
    /\ listening[t]
    /\ listening' = [listening EXCEPT ![t] = FALSE]
    /\ applied' = [applied EXCEPT ![t] = NoFilter]
    /\ asking' = [asking EXCEPT ![t] = 0]
    /\ UNCHANGED <<storage, now, today, cycles, query, update, lastResponse,
                   lastWrite, installed, toggle, force, loaded,
                   evalIn, evalOut>>

\* time passes to another sampled instant of the day
AdvanceClock ==
    /\ \E m \in Clock \ {now} : now' = m
    /\ UNCHANGED <<storage, today, cycles, listening, applied, query, update,
                   lastResponse, lastWrite, installed, toggle, force,
                   loaded, asking,
                   evalIn, evalOut>>

\* no handler is in progress
Quiet ==
    /\ \A s \in 1..MaxCycles : cycles[s].pc = "idle"
    /\ query.pc = "idle"
    /\ update.pc = "idle"
    /\ toggle.pc = "idle"
    /\ force.pc = "idle"
    /\ loaded.pc = "idle"

\* the steps that continue a handler in progress
Continue ==
    \/ \E s \in 1..MaxCycles : UF_Continue(s)
    \/ \E s \in 1..MaxCycles : UF_Send(s)
    \/ GS_Respond
    \/ US_Continue
    \/ TG_Set
    \/ TG_Respond
    \/ TU_Continue

\* one more event is delivered
Arrives ==
    events < MaxEvents /\ events' = events + 1 /\ UNCHANGED <<timer, popup, order, page>>

\* events arrive at any time, also while handlers are suspended
Next ==
    \/ Arrives /\ Tick
    \/ Arrives /\ \E from \in Requesters : GS_Receive(from)
    \/ Arrives /\ \E settings \in SomeSettings : US_Receive(settings)
    \/ Arrives /\ TG_Receive
    \/ Arrives /\ FU_Receive
    \/ Arrives /\ \E t \in Tabs : TU_Receive(t)
    \/ Arrives /\ OnInstalled
    \/ Arrives /\ \E t \in Tabs : PageLoad(t)
    \/ Arrives /\ \E t \in Tabs : Navigate(t)
    \/ Arrives /\ AdvanceClock
    \/ Arrives /\ \E t \in Tabs : GS_Lost(t)
    \/ Continue /\ UNCHANGED <<events, timer, popup, order, page>>

Spec == Init /\ [][Next]_vars

\* events arrive one at a time, each after the handler of the one before has
\* finished; the record a client sends is any combination of the user fields
NextSeq ==
    \/ Quiet /\ Tick /\ UNCHANGED <<events, timer, popup, order, page>>
    \/ Quiet /\ UNCHANGED <<events, timer, popup, order, page>> /\ \E from \in Requesters : GS_Receive(from)
    \/ Quiet /\ UNCHANGED <<events, timer, popup, order, page>> /\ \E settings \in AllSettings : US_Receive(settings)
    \/ Quiet /\ TG_Receive /\ UNCHANGED <<events, timer, popup, order, page>>
    \/ Quiet /\ FU_Receive /\ UNCHANGED <<events, timer, popup, order, page>>
    \/ Quiet /\ UNCHANGED <<events, timer, popup, order, page>> /\ \E t \in Tabs : TU_Receive(t)
    \/ Quiet /\ OnInstalled /\ UNCHANGED <<events, timer, popup, order, page>>
    \/ AdvanceClock /\ UNCHANGED <<events, timer, popup, order, page>>
    \/ Continue /\ UNCHANGED <<events, timer, popup, order, page>>

SpecSeq == InitSeq /\ [][NextSeq]_vars

---------------------------------------------------------------------------
(* The worker left to its alarm: 'nightguard-tick' fires once in every     *)
(* minute (periodInMinutes: 1), nothing else happens, and the cycle of a   *)
(* tick is over before the minute is                                      *)

\* one minute before the boundaries of the windows in use: 21:00 and 07:00,
\* sunset 15:55 and sunrise 08:05 (day 355), sunset 21:19 and sunrise 04:41
\* (day 172)
TickStarts == {20 * 60 + 59, 6 * 60 + 59, 15 * 60 + 54, 8 * 60 + 4,
               21 * 60 + 18, 4 * 60 + 40}

\* the worker has been running: a record is stored, the tabs listen
InitTick ==
    /\ \E r \in AllSettings : storage = [present |-> TRUE, settings |-> r]
    /\ now \in TickStarts
    /\ today \in Days
    /\ cycles = [s \in 1..MaxCycles |-> NoCycle]
    /\ listening = [t \in Tabs |-> eligible(t)]
    /\ applied = [t \in Tabs |-> NoFilter]
    /\ query = Idle
    /\ update = Idle
    /\ toggle = Idle
    /\ force = Idle
    /\ loaded = Idle
    /\ asking = [t \in Tabs |-> 0]
    /\ lastResponse = NoResponse
    /\ lastWrite = [by |-> "update"]
    /\ installed = TRUE
    /\ events = 0
    /\ timer = NoTimer
    /\ popup = NoPopup
    /\ order = NoOrder
    /\ page = NoPage
    /\ evalIn = NoEval
    /\ evalOut = NoResult

\* an alarm that fires without its listener calling updateFilter()
TickFires_NoCycle ==
    /\ ~timer.ticked
    /\ timer' = [timer EXCEPT !.ticked = TRUE]
    /\ UNCHANGED <<storage, now, today, cycles, listening, applied, query,
                   update, toggle, force, loaded, asking, lastResponse,
                   lastWrite, installed, events, popup, order, page, evalIn,
                   evalOut>>

\* the alarm of this minute fires: onAlarm calls updateFilter()
TickFires ==
    /\ ~timer.ticked
    /\ timer' = [timer EXCEPT !.ticked = TRUE]
    /\ Tick
    /\ UNCHANGED <<events, popup, order, page>>

\* the next minute begins
MinutePasses ==
    /\ timer.ticked
    /\ Quiet
    /\ timer.minutes < MaxMinutes
    /\ timer' = [timer EXCEPT !.ticked = FALSE, !.minutes = timer.minutes + 1]
    /\ now' = (now + 1) % 1440
    /\ UNCHANGED <<storage, today, cycles, listening, applied, query, update,
                   toggle, force, loaded, asking, lastResponse, lastWrite,
                   installed, events, popup, order, page, evalIn, evalOut>>

NextTick ==
    \/ TickFires
    \/ MinutePasses
    \/ UNCHANGED <<events, timer, popup, order, page>> /\ \E s \in 1..MaxCycles : UF_Continue(s)
    \/ UNCHANGED <<events, timer, popup, order, page>> /\ \E s \in 1..MaxCycles : UF_Send(s)

SpecTick == InitTick /\ [][NextTick]_vars

\* the same, with a storage that may reject the requests of a cycle
NextFail ==
    \/ TickFires
    \/ MinutePasses
    \/ UNCHANGED <<events, timer, popup, order, page>> /\ \E s \in 1..MaxCycles : UF_Continue(s)
    \/ UNCHANGED <<events, timer, popup, order, page>> /\ \E s \in 1..MaxCycles : UF_Send(s)
    \/ /\ \E s \in 1..MaxCycles : UF_Fail(s)
       /\ timer' = [timer EXCEPT !.failed = TRUE]
       /\ UNCHANGED <<events, popup, order, page>>

SpecFail == InitTick /\ [][NextFail]_vars

---------------------------------------------------------------------------
(* The popup page (popup.js).  It keeps the record it edits in             *)
(* currentSettings, which starts as {} and is replaced by every GET_STATUS *)
(* response; every control edits fields of it and sends the whole of it in *)
(* UPDATE_SETTINGS                                                         *)

\* the variables of the worker and of the tabs
worker == <<storage, now, today, cycles, listening, applied, query, update,
            toggle, force, loaded, asking, lastResponse, lastWrite,
            installed, evalIn, evalOut>>

\* currentSettings.f = v
setField(r, f, v) ==
    [g \in DOMAIN r \cup {f} |-> IF g = f THEN v ELSE r[g]]

\* !currentSettings.f, an absent field being undefined
notField(r, f) == IF f \in DOMAIN r THEN ~r[f] ELSE TRUE

\* the values the intensity slider is moved to
SliderValues == {40, 80}

\* loadSettings(): chrome.runtime.sendMessage({ type: 'GET_STATUS' }, ...)
loadSettings == GS_Receive(0)

\* saveSettings() after the edit that makes currentSettings the record new
saveSettings(new) ==
    /\ popup' = [popup EXCEPT !.settings = new]
    /\ US_Receive(new)

\* DOMContentLoaded: currentSettings = {}, loadSettings()
PopupOpen ==
    /\ ~popup.open
    /\ popup' = [open |-> TRUE, settings |-> NoSettings, button |-> "detect"]
    /\ loadSettings

\* setInterval(loadSettings, 5000), and the setTimeout(loadSettings, 500)
\* after a position was found
PopupRefresh ==
    /\ popup.open
    /\ loadSettings
    /\ UNCHANGED popup

\* the popup is closed: the page and its currentSettings are gone
PopupClose ==
    /\ popup.open
    /\ popup' = NoPopup
    /\ UNCHANGED worker

\* the GET_STATUS handler answers; the callback of loadSettings, when the
\* popup is the one that asked and is still there, replaces currentSettings
StatusArrives ==
    /\ GS_Respond
    /\ popup' = IF query.from = 0 /\ popup.open
                THEN [popup EXCEPT !.settings = lastResponse'.settings]
                ELSE popup

\* masterToggle change
MasterToggle(checked) ==
    /\ popup.open
    /\ saveSettings(setField(popup.settings, "enabled", checked))

\* activateBtn click
ActivateClick ==
    /\ popup.open
    /\ saveSettings(setField(popup.settings, "manualActive",
                             notField(popup.settings, "manualActive")))

\* scheduleOptions click
ScheduleClick(type) ==
    /\ popup.open
    /\ saveSettings(setField(setField(popup.settings, "scheduleType", type),
                             "timerEnabled", FALSE))

\* intensitySlider input, then change
IntensityChange(val) ==
    /\ popup.open
    /\ saveSettings(setField(popup.settings, "intensity", val))

\* locationBtn click: navigator.geolocation.getCurrentPosition(...)
LocationClick ==
    /\ popup.open
    /\ popup.button # "detecting"
    /\ popup' = [popup EXCEPT !.button = "detecting"]
    /\ UNCHANGED worker

\* the success callback
LocationFound(position) ==
    /\ popup.open
    /\ popup.button = "detecting"
    /\ LET new == setField(setField(popup.settings, "latitude", position[1]),
                           "longitude", position[2])
       IN  /\ popup' = [open |-> TRUE, settings |-> new, button |-> "set"]
           /\ US_Receive(new)

\* an error callback that falls back to the manual schedule and saves
LocationDenied_FallsBack ==
    /\ popup.open
    /\ popup.button = "detecting"
    /\ LET new == setField(popup.settings, "scheduleType", "manual")
       IN  /\ popup' = [open |-> TRUE, settings |-> new, button |-> "denied"]
           /\ US_Receive(new)

\* the error callback (permission denied, position unavailable, or the
\* timeout of 10 s): the button text changes, nothing else
LocationDenied ==
    /\ popup.open
    /\ popup.button = "detecting"
    /\ popup' = [popup EXCEPT !.button = "denied"]
    /\ UNCHANGED worker

\* 3 s after the error the button shows its first text again
ButtonResets ==
    /\ popup.open
    /\ popup.button = "denied"
    /\ popup' = [popup EXCEPT !.button = "detect"]
    /\ UNCHANGED worker

\* the positions the browser may report
Positions == { <<Num(51500), Num(-120)>> }

\* no cycle and no write of a handler is in progress
Calm ==
    /\ \A s \in 1..MaxCycles : cycles[s].pc = "idle"
    /\ update.pc = "idle"
    /\ toggle.pc = "idle"

\* the worker started at 08:00 or at 23:00 on the December solstice
InitPopup == \E minute \in {8 * 60, 23 * 60} : Boot(minute, 355)

\* one more message that changes the record is sent to the worker
Sends ==
    events < MaxEvents /\ events' = events + 1 /\ UNCHANGED <<timer, order, page>>

\* the user works with the popup, also before the response to its
\* GET_STATUS is there; the alarm, TOGGLE and onInstalled arrive while no
\* handler is in progress
NextPopup ==
    \/ Calm /\ PopupOpen /\ UNCHANGED <<events, timer, order, page>>
    \/ Calm /\ PopupRefresh /\ UNCHANGED <<events, timer, order, page>>
    \/ PopupClose /\ UNCHANGED <<events, timer, order, page>>
    \/ StatusArrives /\ UNCHANGED <<events, timer, order, page>>
    \/ Calm /\ Sends /\ \E checked \in BOOLEAN : MasterToggle(checked)
    \/ Calm /\ ActivateClick /\ Sends
    \/ Calm /\ Sends /\ \E type \in {"manual", "auto"} : ScheduleClick(type)
    \/ Calm /\ Sends /\ \E val \in SliderValues : IntensityChange(val)
    \/ LocationClick /\ UNCHANGED <<events, timer, order, page>>
    \/ Calm /\ Sends /\ \E position \in Positions : LocationFound(position)
    \/ LocationDenied /\ UNCHANGED <<events, timer, order, page>>
    \/ ButtonResets /\ UNCHANGED <<events, timer, order, page>>
    \/ Quiet /\ Tick /\ UNCHANGED <<events, timer, popup, order, page>>
    \/ Quiet /\ TG_Receive /\ Arrives
    \/ Quiet /\ OnInstalled /\ UNCHANGED <<events, timer, popup, order, page>>
    \/ Quiet /\ UNCHANGED <<events, timer, popup, order, page>> /\ TU_Receive(1)
    \/ UNCHANGED <<events, timer, popup, order, page>> /\ \E s \in 1..MaxCycles : UF_Continue(s)
    \/ UNCHANGED <<events, timer, popup, order, page>> /\ \E s \in 1..MaxCycles : UF_Send(s)
    \/ US_Continue /\ UNCHANGED <<events, timer, popup, order, page>>
    \/ TG_Set /\ UNCHANGED <<events, timer, popup, order, page>>
    \/ TG_Respond /\ UNCHANGED <<events, timer, popup, order, page>>
    \/ TU_Continue /\ UNCHANGED <<events, timer, popup, order, page>>

SpecPopup == InitPopup /\ [][NextPopup]_vars

---------------------------------------------------------------------------
(* The worker starts again (browser start, update of the extension): the   *)
(* storage is as an earlier session left it, the updateFilter() at the end *)
(* of the script is in flight, and onInstalled may fire                    *)

\* what an earlier session left: nothing, or any record of the user fields
InitRestart ==
    /\ \/ storage = [present |-> FALSE]
       \/ \E r \in AllSettings : storage = [present |-> TRUE, settings |-> r]
    /\ now \in Clock
    /\ today \in Days
    /\ cycles = [s \in 1..MaxCycles |->
                    IF s = 1
                    THEN [pc |-> "get", settings |-> MergeDefaults(storage)]
                    ELSE NoCycle]
    /\ listening = [t \in Tabs |-> FALSE]
    /\ applied = [t \in Tabs |-> NoFilter]
    /\ query = Idle
    /\ update = Idle
    /\ toggle = Idle
    /\ force = Idle
    /\ loaded = Idle
    /\ asking = [t \in Tabs |-> 0]
    /\ lastResponse = NoResponse
    /\ lastWrite = NoWrite
    /\ installed = FALSE
    /\ events = 0
    /\ timer = NoTimer
    /\ popup = NoPopup
    /\ order = NoOrder
    /\ page = NoPage
    /\ evalIn = NoEval
    /\ evalOut = NoResult

\* onInstalled fires at any time, also while the first cycle is suspended
NextRestart ==
    \/ OnInstalled /\ UNCHANGED <<events, timer, popup, order, page>>
    \/ UNCHANGED <<events, timer, popup, order, page>> /\ \E s \in 1..MaxCycles : UF_Continue(s)
    \/ UNCHANGED <<events, timer, popup, order, page>> /\ \E s \in 1..MaxCycles : UF_Send(s)

SpecRestart == InitRestart /\ [][NextRestart]_vars

---------------------------------------------------------------------------
(* The solar time estimator on its own: calculateSunTimes for latitudes up *)
(* to the poles and longitudes up to the date line, and toTimeString for   *)
(* minute values below 0 and from 1440 on                                  *)

\* latitudes and longitudes, in thousandths of a degree
SunLatitudes == {-90000, -89000, 0, 51500, 89000, 90000}
SunLongitudes == {-180000, -120, 0, 180000}

\* minute values, in thousandths of a minute: -1440.001, -1440, -720.5,
\* -0.001, 0, 59.999, 1439.999, 1440, 2160.25, 2880
SunMinutes == {-1440001, -1440000, -720500, -1, 0, 59999, 1439999, 1440000,
               2160250, 2880000}

SunInputs ==
    { [lat |-> la, lng |-> lo, mins |-> mi] :
        la \in SunLatitudes, lo \in SunLongitudes, mi \in SunMinutes }

InitSun ==
    /\ now = 23 * 60
    /\ today \in Days
    /\ storage = [present |-> FALSE]
    /\ cycles = [s \in 1..MaxCycles |-> NoCycle]
    /\ listening = [t \in Tabs |-> FALSE]
    /\ applied = [t \in Tabs |-> NoFilter]
    /\ query = Idle
    /\ update = Idle
    /\ toggle = Idle
    /\ force = Idle
    /\ loaded = Idle
    /\ asking = [t \in Tabs |-> 0]
    /\ lastResponse = NoResponse
    /\ lastWrite = NoWrite
    /\ installed = FALSE
    /\ events = 0
    /\ timer = NoTimer
    /\ popup = NoPopup
    /\ order = NoOrder
    /\ page = NoPage
    /\ evalIn \in SunInputs
    /\ evalOut = NoResult

EvaluateSun ==
    /\ ~evalOut.done
    /\ evalOut' =
          [done |-> TRUE,
           clamped |-> clampedCos(cosHourAngle(evalIn.lat, today)),
           sun |-> calculateSunTimes(evalIn.lat, evalIn.lng, today),
           time |-> toTimeString(evalIn.mins)]
    /\ UNCHANGED <<storage, now, today, cycles, listening, applied, query,
                   update, toggle, force, loaded, lastResponse, lastWrite,
                   installed, events, timer, popup, order, page, asking, evalIn>>

SpecSun == InitSun /\ [][EvaluateSun]_vars

---------------------------------------------------------------------------
(* Overlapping cycles: a record is stored and every web tab has a content  *)
(* script that listens, so that no send fails; ticks and UPDATE_SETTINGS   *)
(* arrive while cycles are suspended at their awaits                       *)

InitOverlap ==
    /\ \E r \in SomeSettings : storage = [present |-> TRUE, settings |-> r]
    /\ now \in Clock
    /\ today = 355
    /\ cycles = [s \in 1..MaxCycles |-> NoCycle]
    /\ listening = [t \in Tabs |-> eligible(t)]
    /\ applied = [t \in Tabs |-> NoFilter]
    /\ query = Idle
    /\ update = Idle
    /\ toggle = Idle
    /\ force = Idle
    /\ loaded = Idle
    /\ asking = [t \in Tabs |-> 0]
    /\ lastResponse = NoResponse
    /\ lastWrite = [by |-> "update"]
    /\ installed = TRUE
    /\ events = 0
    /\ timer = NoTimer
    /\ popup = NoPopup
    /\ order = NoOrder
    /\ page = NoPage
    /\ evalIn = NoEval
    /\ evalOut = NoResult

\* A request is <<kind, slot, tab>>: the storage read of cycle slot
\* ("get"), the storage write of UPDATE_SETTINGS ("set"), the message of
\* cycle slot to tab ("send").  The storage is one channel, every tab is one
SameChannel(a, b) ==
    IF a[1] = "send" THEN b[1] = "send" /\ b[3] = a[3] ELSE b[1] # "send"

\* no request issued before r on the channel of r still awaits its answer
FirstOnChannel(r) ==
    LET q == order.queue
        i == CHOOSE k \in 1..Len(q) : q[k] = r
    IN  \A j \in 1..(i - 1) : ~SameChannel(r, q[j])

\* the request r is issued
Issued(r) == order' = [order EXCEPT !.queue = Append(order.queue, r)]

\* the request r is answered and the handler that awaited it issues the
\* requests next
Answered(r, next) ==
    order' = [queue |-> SelectSeq(order.queue, LAMBDA x : x # r) \o next,
              inOrder |-> order.inOrder /\ FirstOnChannel(r)]

\* one more event is delivered
Delivered ==
    events < MaxEvents /\ events' = events + 1 /\ UNCHANGED <<timer, popup, page>>

NextOverlap ==
    \/ Delivered /\ Tick /\ Issued(<<"get", FirstFree, 0>>)
    \/ /\ Delivered
       /\ \E settings \in SomeSettings : US_Receive(settings)
       /\ Issued(<<"set", 0, 0>>)
    \/ Arrives /\ AdvanceClock
    \/ /\ UNCHANGED <<events, timer, popup, page>>
       /\ \E s \in 1..MaxCycles :
             /\ UF_Continue(s)
             /\ Answered(<<"get", s, 0>>, << <<"send", s, Head(sendList)>> >>)
    \/ /\ UNCHANGED <<events, timer, popup, page>>
       /\ \E s \in 1..MaxCycles :
             /\ UF_Send(s)
             /\ Answered(<<"send", s, Head(cycles[s].todo)>>,
                         IF Tail(cycles[s].todo) = <<>> THEN <<>>
                         ELSE << <<"send", s, Head(Tail(cycles[s].todo))>> >>)
    \/ /\ UNCHANGED <<events, timer, popup, page>>
       /\ US_Continue
       /\ Answered(<<"set", 0, 0>>, << <<"get", FirstFree, 0>> >>)

SpecOverlap == InitOverlap /\ [][NextOverlap]_vars

---------------------------------------------------------------------------
(* Cold start of a content script while the record changes: the stored    *)
(* record is as the cycle of this minute wrote it, tab 1 has just run      *)
(* content.js (listener registered, requestStatus(3) called) next to the   *)
(* web tabs loaded before it, and UPDATE_SETTINGS and the tabs.onUpdated   *)
(* event of tab 1 arrive while its GET_STATUS is handled                   *)

InitPull ==
    /\ now \in Clock
    /\ today = 355
    /\ \E r \in SomeSettings :
          storage = [present |-> TRUE,
                     settings |-> updateFilterSettings(r, now, today)]
    /\ cycles = [s \in 1..MaxCycles |-> NoCycle]
    /\ listening = [t \in Tabs |-> eligible(t)]
    /\ applied = [t \in Tabs |-> NoFilter]
    /\ query = Idle
    /\ update = Idle
    /\ toggle = Idle
    /\ force = Idle
    /\ loaded = Idle
    /\ asking = [t \in Tabs |-> IF t = 1 THEN Retries + 1 ELSE 0]
    /\ lastResponse = NoResponse
    /\ lastWrite = NoWrite
    /\ installed = TRUE
    /\ events = 0
    /\ timer = NoTimer
    /\ popup = NoPopup
    /\ order = NoOrder
    /\ page = NoPage
    /\ evalIn = NoEval
    /\ evalOut = NoResult

NextPull ==
    \/ GS_Receive(1) /\ UNCHANGED <<events, timer, popup, order, page>>
    \/ GS_Respond /\ UNCHANGED <<events, timer, popup, order, page>>
    \/ Arrives /\ \E settings \in SomeSettings : US_Receive(settings)
    \/ US_Continue /\ UNCHANGED <<events, timer, popup, order, page>>
    \/ UNCHANGED <<events, timer, popup, order, page>> /\ \E s \in 1..MaxCycles : UF_Continue(s)
    \/ UNCHANGED <<events, timer, popup, order, page>> /\ \E s \in 1..MaxCycles : UF_Send(s)
    \/ Arrives /\ TU_Receive(1)
    \/ TU_Continue /\ UNCHANGED <<events, timer, popup, order, page>>

SpecPull == InitPull /\ [][NextPull]_vars

---------------------------------------------------------------------------
(* What the content script puts on the document (content.js).  The file    *)
(* holds three copies of the script: the first (4-142) and the third       *)
(* (387-526) know the modes bluelight, darkmode and both, the second       *)
(* (147-382) also the three named filters.  A style's text is kept as the  *)
(* numbers the script writes into it, the empty text as <<>>.              *)

Scripts == {1, 2, 3}

\* FILTER_KEYFRAMES, in thousandths, one row per entry of FILTER_STOPS
FILTER_STOPS == <<0, 20, 40, 60, 80, 100>>

FILTER_KEYFRAMES ==
    [m \in {"sleep-prep", "reduce-eye-strain", "reader-mode"} |->
        IF m = "sleep-prep"
        THEN << <<0, 1000, 1000>>, <<300, 1500, 980>>, <<550, 2000, 950>>,
                <<750, 2500, 920>>, <<900, 3000, 900>>, <<1000, 3500, 880>> >>
        ELSE IF m = "reduce-eye-strain"
        THEN << <<0, 1000, 1000, 1000>>, <<80, 1050, 990, 990>>,
                <<150, 1100, 980, 980>>, <<220, 1150, 970, 970>>,
                <<280, 1200, 970, 970>>, <<350, 1300, 960, 960>> >>
        ELSE << <<0, 1000, 1000, 1000>>, <<150, 950, 970, 970>>,
                <<300, 900, 940, 930>>, <<450, 850, 900, 900>>,
                <<550, 820, 870, 870>>, <<650, 800, 850, 850>> >>]

\* Math.round of num / den, and toFixed(3) of a value kept in thousandths
Round(num, den) == (2 * num + den) \div (2 * den)

\* a[k] + (b[k] - a[k]) * t with t = num / den, shown with three decimals
lerpObj(a, b, num, den) ==
    [k \in DOMAIN a |-> a[k] + Round((b[k] - a[k]) * num, den)]

\* the filter text of a named mode; '' for any other mode
computeFilterCSS(mode, intensity) ==
    IF mode \notin DOMAIN FILTER_KEYFRAMES THEN <<>>
    ELSE LET frames == FILTER_KEYFRAMES[mode]
             clamped == Max(0, Min(100, intensity))
             found == { i \in 1..(Len(FILTER_STOPS) - 1) :
                          /\ clamped >= FILTER_STOPS[i]
                          /\ clamped <= FILTER_STOPS[i + 1] }
             i == CHOOSE j \in found : \A k \in found : j <= k
             lo == FILTER_STOPS[i]
             hi == FILTER_STOPS[i + 1]
         IN  lerpObj(frames[i], frames[i + 1], clamped - lo, hi - lo)

\* the second copy only: fill or empty the style element of the named modes
applyModeFilter(p, mode, intensity) ==
    IF intensity <= 0 \/ mode \notin DOMAIN FILTER_KEYFRAMES
    THEN [p EXCEPT !.dom.filtermode = <<>>]
    ELSE [p EXCEPT !.dom.filtermode = computeFilterCSS(mode, intensity)]

\* hide the overlay (its background stays) or colour and show it
applyBlueLight(p, intensity) ==
    IF intensity <= 0
    THEN [p EXCEPT !.dom.opacity = 0]
    ELSE [p EXCEPT !.dom.background =
                       <<255, Round((180 * 100 - intensity * 40), 100),
                         Round((60 * 100 - intensity * 50), 100),
                         800 + intensity * 22>>,
                   !.dom.opacity = 1]

\* empty or fill the dark-mode style; the intensity comes in tenths, since
\* the mode both passes intensity * 0.7
applyDarkMode(p, tenths) ==
    IF tenths <= 0
    THEN [p EXCEPT !.dom.darkmode = <<>>]
    ELSE IF p.script = 1
    THEN [p EXCEPT !.dom.darkmode =
              <<Round(tenths * 90, 1000), 100 + Round(tenths * 20, 1000),
                100 - Round(tenths * 10, 1000)>>]
    ELSE [p EXCEPT !.dom.darkmode = <<Round(tenths * 93, 1000)>>]

\* updateFilter of the first and of the third copy
updateFilterThreeModes(p, data) ==
    IF ~data.enabled \/ data.intensity <= 0
    THEN applyDarkMode(applyBlueLight(p, 0), 0)
    ELSE IF data.mode = "bluelight"
    THEN applyDarkMode(applyBlueLight(p, data.intensity), 0)
    ELSE IF data.mode = "darkmode"
    THEN applyDarkMode(applyBlueLight(p, 0), data.intensity * 10)
    ELSE IF data.mode = "both"
    THEN applyDarkMode(applyBlueLight(p, data.intensity), data.intensity * 7)
    ELSE p

\* updateFilter of the second copy
updateFilterNamedModes(p, data) ==
    IF ~data.enabled \/ data.intensity <= 0
    THEN applyModeFilter(applyDarkMode(applyBlueLight(p, 0), 0), "", 0)
    ELSE IF data.mode \in DOMAIN FILTER_KEYFRAMES
    THEN applyModeFilter(applyDarkMode(applyBlueLight(p, 0), 0),
                         data.mode, data.intensity)
    ELSE IF data.mode = "bluelight"
    THEN applyBlueLight(applyDarkMode(applyModeFilter(p, "", 0), 0),
                        data.intensity)
    ELSE IF data.mode = "darkmode"
    THEN applyDarkMode(applyBlueLight(applyModeFilter(p, "", 0), 0),
                       data.intensity * 10)
    ELSE IF data.mode = "both"
    THEN applyDarkMode(applyBlueLight(applyModeFilter(p, "", 0),
                                      data.intensity),
                       data.intensity * 7)
    ELSE p

\* variants of updateFilter: one that returns at once when the filter is
\* off, one whose branches set their own treatment and clear no other
updateFilter_ReturnsWhenOff(p, data) ==
    IF ~data.enabled \/ data.intensity <= 0 THEN p
    ELSE IF p.script = 2 THEN updateFilterNamedModes(p, data)
    ELSE updateFilterThreeModes(p, data)

updateFilter_ClearsNoOther(p, data) ==
    IF ~data.enabled \/ data.intensity <= 0
    THEN IF p.script = 2 THEN updateFilterNamedModes(p, data)
         ELSE updateFilterThreeModes(p, data)
    ELSE IF p.script = 2 /\ data.mode \in DOMAIN FILTER_KEYFRAMES
    THEN applyModeFilter(p, data.mode, data.intensity)
    ELSE IF data.mode = "bluelight"
    THEN applyBlueLight(p, data.intensity)
    ELSE IF data.mode = "darkmode"
    THEN applyDarkMode(p, data.intensity * 10)
    ELSE IF data.mode = "both"
    THEN applyDarkMode(applyBlueLight(p, data.intensity), data.intensity * 7)
    ELSE p

\* updateFilter(data) of the copy that runs in the tab
updateFilter(p, data) ==
    IF p.script = 2 THEN updateFilterNamedModes(p, data)
    ELSE updateFilterThreeModes(p, data)

\* the modes and intensities of the data the script is given; the mode
\* grayscale is one that no copy knows.  Both senders set enabled to
\* settings.enabled && currentIntensity > 0, and currentIntensity is 0
\* when the filter is disabled.
Modes == {"bluelight", "darkmode", "both", "sleep-prep",
          "reduce-eye-strain", "reader-mode", "grayscale"}
Levels == {0, 30}
FilterData ==
    { [mode |-> m, intensity |-> i, enabled |-> i > 0] :
        m \in Modes, i \in Levels }

\* every web tab runs the same copy of the script, and nothing is on the
\* documents yet
InitRender ==
    /\ storage = [present |-> TRUE, settings |-> DEFAULT_SETTINGS]
    /\ now \in {23 * 60}
    /\ today = 355
    /\ cycles = [s \in 1..MaxCycles |-> NoCycle]
    /\ listening = [t \in Tabs |-> eligible(t)]
    /\ applied = [t \in Tabs |-> NoFilter]
    /\ query = Idle
    /\ update = Idle
    /\ toggle = Idle
    /\ force = Idle
    /\ loaded = Idle
    /\ asking = [t \in Tabs |-> 0]
    /\ lastResponse = NoResponse
    /\ lastWrite = [by |-> "update"]
    /\ installed = TRUE
    /\ events = 0
    /\ timer = NoTimer
    /\ popup = NoPopup
    /\ order = NoOrder
    /\ \E script \in Scripts :
          page = [t \in Tabs |->
                    IF eligible(t)
                    THEN [NoPage[t] EXCEPT !.script = script,
                                           !.evaluations = 1,
                                           !.listeners = 1, !.pulls = 1]
                    ELSE NoPage[t]]
    /\ evalIn = NoEval
    /\ evalOut = NoResult

\* the script of tab t is handed data, by the UPDATE_FILTER listener or by
\* the callback of requestStatus, and calls updateFilter(data)
Applies(t, data) ==
    /\ listening[t]
    /\ applied' = [applied EXCEPT ![t] = applyMessage(data)]
    /\ page' = [page EXCEPT ![t] = updateFilter(page[t], data)]
    /\ UNCHANGED <<storage, now, today, cycles, listening, query, update,
                   toggle, force, loaded, asking, lastResponse, lastWrite,
                   installed, events, timer, popup, order, evalIn, evalOut>>

NextRender == \E t \in Tabs, data \in FilterData : Applies(t, data)

SpecRender == InitRender /\ [][NextRender]_vars

---------------------------------------------------------------------------
(* Injection of the content script: content.js is evaluated in a page by   *)
(* the manifest, by scripting.executeScript at install, and once for each  *)
(* copy of the script in the file; the page's script then asks for the     *)
(* status until an attempt gets through or the retries are used up         *)

MaxEvaluations == 4

\* a copy that initialises whether or not the flag is set
Evaluates_Unguarded(t, copy) ==
    /\ eligible(t)
    /\ page[t].evaluations < MaxEvaluations
    /\ page' = [page EXCEPT ![t].script = copy,
                            ![t].evaluations = @ + 1,
                            ![t].listeners = @ + 1,
                            ![t].pulls = @ + 1]
    /\ listening' = [listening EXCEPT ![t] = TRUE]
    /\ applied' = [applied EXCEPT ![t] = NoFilter]
    /\ asking' = [asking EXCEPT ![t] = Retries + 1]
    /\ UNCHANGED <<storage, now, today, cycles, query, update, toggle, force,
                   loaded, lastResponse, lastWrite, installed, events, timer,
                   popup, order, evalIn, evalOut>>

\* one copy of the script is evaluated in the page of tab t: it returns at
\* once when window.__nightguard_loaded is set; else it sets the flag,
\* registers its UPDATE_FILTER listener and calls requestStatus(3)
Evaluates(t, copy) ==
    /\ eligible(t)
    /\ page[t].evaluations < MaxEvaluations
    /\ IF page[t].script # 0
       THEN /\ page' = [page EXCEPT ![t].evaluations = @ + 1]
            /\ UNCHANGED <<listening, applied, asking>>
       ELSE /\ page' = [page EXCEPT ![t].script = copy,
                                    ![t].evaluations = @ + 1,
                                    ![t].listeners = @ + 1,
                                    ![t].pulls = @ + 1]
            /\ listening' = [listening EXCEPT ![t] = TRUE]
            /\ applied' = [applied EXCEPT ![t] = NoFilter]
            /\ asking' = [asking EXCEPT ![t] = Retries + 1]
    /\ UNCHANGED <<storage, now, today, cycles, query, update, toggle, force,
                   loaded, lastResponse, lastWrite, installed, events, timer,
                   popup, order, evalIn, evalOut>>

\* the tab loads a new document: window, listener and timers of the old one
\* are gone
Reloads(t) ==
    /\ page[t].evaluations > 0
    /\ page' = [page EXCEPT ![t] = NoPage[t]]
    /\ listening' = [listening EXCEPT ![t] = FALSE]
    /\ applied' = [applied EXCEPT ![t] = NoFilter]
    /\ asking' = [asking EXCEPT ![t] = 0]
    /\ UNCHANGED <<storage, now, today, cycles, query, update, toggle, force,
                   loaded, lastResponse, lastWrite, installed, events, timer,
                   popup, order, evalIn, evalOut>>

\* the page of tab t has sent one more GET_STATUS
Attempt(t) ==
    /\ page' = [page EXCEPT ![t].attempts = @ + 1]
    /\ UNCHANGED <<events, timer, popup, order>>

InitInject ==
    /\ storage = [present |-> TRUE, settings |-> DEFAULT_SETTINGS]
    /\ now = 23 * 60
    /\ today = 355
    /\ cycles = [s \in 1..MaxCycles |-> NoCycle]
    /\ listening = [t \in Tabs |-> FALSE]
    /\ applied = [t \in Tabs |-> NoFilter]
    /\ query = Idle
    /\ update = Idle
    /\ toggle = Idle
    /\ force = Idle
    /\ loaded = Idle
    /\ asking = [t \in Tabs |-> 0]
    /\ lastResponse = NoResponse
    /\ lastWrite = NoWrite
    /\ installed = TRUE
    /\ events = 0
    /\ timer = NoTimer
    /\ popup = NoPopup
    /\ order = NoOrder
    /\ page = NoPage
    /\ evalIn = NoEval
    /\ evalOut = NoResult

\* the page followed is that of tab 1
NextInject ==
    \/ \E copy \in Scripts : Evaluates(1, copy)
    \/ Reloads(1)
    \/ GS_Receive(1) /\ Attempt(1)
    \/ GS_Lost(1) /\ Attempt(1)
    \/ GS_Respond /\ UNCHANGED <<events, timer, popup, order, page>>

SpecInject == InitInject /\ [][NextInject]_vars

---------------------------------------------------------------------------
(* Startups of the service worker: each runs the top level of the script,  *)
(* which asks for the alarm nightguard-tick, creates it when there is      *)
(* none, and calls updateFilter(); the browser may drop the alarm between  *)
(* two startups                                                           *)

MaxStartups == 3

\* the worker starts when the one before is gone: chrome.alarms.get is
\* issued and updateFilter() called
WorkerStarts ==
    /\ Quiet
    /\ timer.check = "idle"
    /\ timer.startups < MaxStartups
    /\ timer' = [timer EXCEPT !.startups = @ + 1, !.check = "get"]
    /\ Tick
    /\ UNCHANGED <<events, popup, order, page>>

\* a callback of chrome.alarms.get that creates the alarm in any case;
\* chrome.alarms.create replaces an alarm of the same name
AlarmChecked_AlwaysCreates ==
    /\ timer.check = "get"
    /\ timer' = [timer EXCEPT !.check = "idle", !.alarms = 1,
                              !.created = @ + 1,
                              !.resets = @ + timer.alarms,
                              !.ticked = TRUE]
    /\ UNCHANGED <<storage, now, today, cycles, listening, applied, query,
                   update, toggle, force, loaded, asking, lastResponse,
                   lastWrite, installed, events, popup, order, page, evalIn,
                   evalOut>>

\* the callback of chrome.alarms.get: create the alarm if (!existing); a new
\* alarm fires a period later, not in the minute of its creation
AlarmChecked ==
    /\ timer.check = "get"
    /\ timer' = IF timer.alarms = 0
                THEN [timer EXCEPT !.check = "idle", !.alarms = 1,
                                   !.created = @ + 1, !.ticked = TRUE]
                ELSE [timer EXCEPT !.check = "idle"]
    /\ UNCHANGED <<storage, now, today, cycles, listening, applied, query,
                   update, toggle, force, loaded, asking, lastResponse,
                   lastWrite, installed, events, popup, order, page, evalIn,
                   evalOut>>

\* the browser drops the extension's alarms while no worker runs
AlarmDropped ==
    /\ Quiet
    /\ timer.check = "idle"
    /\ timer.alarms > 0
    /\ timer' = [timer EXCEPT !.alarms = 0]
    /\ UNCHANGED <<storage, now, today, cycles, listening, applied, query,
                   update, toggle, force, loaded, asking, lastResponse,
                   lastWrite, installed, events, popup, order, page, evalIn,
                   evalOut>>

\* the alarm, when there is one, fires in its minute
AlarmFires == timer.alarms > 0 /\ TickFires

\* the extension has just been installed: no alarm, no worker yet
InitAlarm ==
    /\ storage = [present |-> TRUE, settings |-> DEFAULT_SETTINGS]
    /\ now \in Clock
    /\ today = 355
    /\ cycles = [s \in 1..MaxCycles |-> NoCycle]
    /\ listening = [t \in Tabs |-> eligible(t)]
    /\ applied = [t \in Tabs |-> NoFilter]
    /\ query = Idle
    /\ update = Idle
    /\ toggle = Idle
    /\ force = Idle
    /\ loaded = Idle
    /\ asking = [t \in Tabs |-> 0]
    /\ lastResponse = NoResponse
    /\ lastWrite = NoWrite
    /\ installed = TRUE
    /\ events = 0
    /\ timer = [NoTimer EXCEPT !.alarms = 0, !.created = 0, !.startups = 0]
    /\ popup = NoPopup
    /\ order = NoOrder
    /\ page = NoPage
    /\ evalIn = NoEval
    /\ evalOut = NoResult

NextAlarm ==
    \/ WorkerStarts
    \/ AlarmChecked
    \/ AlarmDropped
    \/ AlarmFires
    \/ MinutePasses
    \/ UNCHANGED <<events, timer, popup, order, page>> /\ \E s \in 1..MaxCycles : UF_Continue(s)
    \/ UNCHANGED <<events, timer, popup, order, page>> /\ \E s \in 1..MaxCycles : UF_Send(s)

SpecAlarm == InitAlarm /\ [][NextAlarm]_vars

---------------------------------------------------------------------------
(* The popup's timer button and the core: the record as the popup saves it  *)
(* after no, one and two clicks on setTimerBtn, each given to the          *)
(* reconciliation cycle and to GET_STATUS at the same instant              *)

\* setTimerBtn click: currentSettings.timerEnabled = !currentSettings.timerEnabled
setTimerClick(settings) ==
    setField(settings, "timerEnabled", notField(settings, "timerEnabled"))

\* clicks since the record was made: timerEnabled absent, true, false
TimerClicks == 0..2

RECURSIVE afterClicks(_, _)
afterClicks(settings, n) ==
    IF n = 0 THEN settings ELSE setTimerClick(afterClicks(settings, n - 1))

\* the records the popup may have saved before the first click, and the
\* minute at which the worker reads them
TimerInputs == [settings : AllSettings, now : Clock]

InitTimerField ==
    /\ now = 23 * 60
    /\ today \in Days
    /\ storage = [present |-> FALSE]
    /\ cycles = [s \in 1..MaxCycles |-> NoCycle]
    /\ listening = [t \in Tabs |-> FALSE]
    /\ applied = [t \in Tabs |-> NoFilter]
    /\ query = Idle
    /\ update = Idle
    /\ toggle = Idle
    /\ force = Idle
    /\ loaded = Idle
    /\ asking = [t \in Tabs |-> 0]
    /\ lastResponse = NoResponse
    /\ lastWrite = NoWrite
    /\ installed = FALSE
    /\ events = 0
    /\ timer = NoTimer
    /\ popup = NoPopup
    /\ order = NoOrder
    /\ page = NoPage
    /\ evalIn \in TimerInputs
    /\ evalOut = NoResult

\* updateFilter and the GET_STATUS handler run on each of the three records
EvaluateTimerField ==
    /\ ~evalOut.done
    /\ evalOut' =
          [done |-> TRUE,
           cycle |-> [n \in TimerClicks |->
              updateFilterSettings(
                  MergeDefaults([present |-> TRUE,
                                 settings |-> afterClicks(evalIn.settings, n)]),
                  evalIn.now, today)],
           status |-> [n \in TimerClicks |->
              getStatusSettings(
                  MergeDefaults([present |-> TRUE,
                                 settings |-> afterClicks(evalIn.settings, n)]),
                  evalIn.now, today)]]
    /\ UNCHANGED <<storage, now, today, cycles, listening, applied, query,
                   update, toggle, force, loaded, lastResponse, lastWrite,
                   installed, events, timer, popup, order, page, asking, evalIn>>

SpecTimerField == InitTimerField /\ [][EvaluateTimerField]_vars

---------------------------------------------------------------------------
(* The schedule evaluator on its own: isInActiveWindow and the intensity   *)
(* a reconciliation computes, for start, end and now on a grid of the day  *)

EvalHours == {0, 6, 7, 8, 21, 23}
EvalMinutes == {0, 30, 59}

\* the record whose window is evaluated
evalSettings(in) ==
    [DEFAULT_SETTINGS EXCEPT !.startTime = in.start, !.endTime = in.end]

EvalInputs ==
    { [start |-> HHMM(sh, sm), end |-> HHMM(eh, em), now |-> nh * 60 + nm] :
        sh \in EvalHours, sm \in EvalMinutes,
        eh \in EvalHours, em \in EvalMinutes,
        nh \in EvalHours, nm \in EvalMinutes }

InitEval ==
    /\ now = 23 * 60
    /\ today \in Days
    /\ storage = [present |-> FALSE]
    /\ cycles = [s \in 1..MaxCycles |-> NoCycle]
    /\ listening = [t \in Tabs |-> FALSE]
    /\ applied = [t \in Tabs |-> NoFilter]
    /\ query = Idle
    /\ update = Idle
    /\ toggle = Idle
    /\ force = Idle
    /\ loaded = Idle
    /\ asking = [t \in Tabs |-> 0]
    /\ lastResponse = NoResponse
    /\ lastWrite = NoWrite
    /\ installed = FALSE
    /\ events = 0
    /\ timer = NoTimer
    /\ popup = NoPopup
    /\ order = NoOrder
    /\ page = NoPage
    /\ evalIn \in EvalInputs
    /\ evalOut = NoResult

Evaluate ==
    /\ ~evalOut.done
    /\ evalOut' =
          [done |-> TRUE,
           inWindow |-> isInActiveWindow(evalIn.start, evalIn.end, evalIn.now),
           intensity |->
              updateFilterSettings(evalSettings(evalIn), evalIn.now, today)
                  .currentIntensity]
    /\ UNCHANGED <<storage, now, today, cycles, listening, applied, query,
                   update, toggle, force, loaded, lastResponse, lastWrite,
                   installed, events, timer, popup, order, page, asking, evalIn>>

SpecEval == InitEval /\ [][Evaluate]_vars


---------------------------------------------------------------------------
(* Properties *)

\* minutes since midnight of a time string "HH:MM"
MinuteOfDay(t) ==
    (DigitVal(t[1]) * 10 + DigitVal(t[2])) * 60
        + DigitVal(t[4]) * 10 + DigitVal(t[5])

\* the half-open window [startMin, endMin) of the day, wrapping midnight
\* when startMin > endMin
WithinWindow(startMin, endMin, n) ==
    IF startMin <= endMin
    THEN startMin <= n /\ n < endMin
    ELSE n >= startMin \/ n < endMin

\* enabled ? (manualActive ? intensity : (inWindow ? intensity : 0)) : 0
EffectiveIntensity(r, inWindow) ==
    IF r.enabled
    THEN IF r.manualActive THEN r.intensity
         ELSE IF inWindow THEN r.intensity ELSE 0
    ELSE 0

\* the step in which cycle s resumes after its storage read
CycleContinues(s) == cycles[s].pc = "get" /\ cycles'[s].pc = "send"

\* the step in which cycle s ends at a storage request that failed
CycleFails(s) == cycles[s].pc = "get" /\ cycles'[s].pc = "idle"

\* the step in which the GET_STATUS handler answers
StatusResponds == query.pc = "get" /\ query'.pc = "idle"

\* the step in which the UPDATE_SETTINGS handler answers
UpdateResponds == update.pc = "set" /\ update'.pc = "idle"

\* C1: a reconciliation cycle persists currentIntensity =
\* enabled ? (manualActive ? intensity : (inWindow ? intensity : 0)) : 0 of
\* the record it read, inWindow taken on the window the cycle resolved, at
\* the minute of the computation, and isActive = (currentIntensity > 0).
C1_CyclePersistsEffectiveIntensity ==
    [][\A s \in 1..MaxCycles : CycleContinues(s) =>
          LET r == cycles[s].settings
              w == storage'.settings
              inWindow == WithinWindow(MinuteOfDay(w.startTime),
                                       MinuteOfDay(w.endTime), now)
          IN  /\ storage'.present
              /\ w.currentIntensity = EffectiveIntensity(r, inWindow)
              /\ w.isActive = (w.currentIntensity > 0)]_vars

\* a cycle has persisted the user's intensity for a record that is enabled,
\* not overridden, inside its window
C1_Witness ==
    \E s \in 1..MaxCycles :
        /\ cycles[s].pc = "send"
        /\ cycles[s].settings.enabled
        /\ ~cycles[s].settings.manualActive
        /\ cycles[s].settings.scheduleType = "manual"
        /\ cycles[s].settings.currentIntensity = 40
        /\ cycles[s].settings.isActive
        /\ storage.settings = cycles[s].settings

\* C2: for start <= end, start # end, isInActiveWindow is true exactly when
\* start <= now < end.
C2_NonWrappingWindow ==
    LET start == MinuteOfDay(evalIn.start)
        end   == MinuteOfDay(evalIn.end)
    IN  (evalOut.done /\ start <= end /\ start # end) =>
            (evalOut.inWindow <=> (start <= evalIn.now /\ evalIn.now < end))

\* the evaluator has answered for a non-wrapping window at its start and,
\* as the mutant shows, at its end
C2_Witness ==
    /\ evalOut.done
    /\ evalIn.start = HHMM(7, 0)
    /\ evalIn.end = HHMM(21, 0)
    /\ evalIn.now = 7 * 60
    /\ evalOut.inWindow

\* C3: for start > end, isInActiveWindow is true exactly when now >= start
\* or now < end; with 21:00 -> 07:00, enabled, no override, intensity 80 the
\* cycle computes 80 at 23:00 and at 06:59, and 0 at 08:00.
C3_WrappingWindow ==
    LET start == MinuteOfDay(evalIn.start)
        end   == MinuteOfDay(evalIn.end)
    IN  /\ (evalOut.done /\ start > end) =>
             (evalOut.inWindow <=> (evalIn.now >= start \/ evalIn.now < end))
        /\ (evalOut.done /\ evalIn.start = HHMM(21, 0) /\ evalIn.end = HHMM(7, 0)) =>
             /\ evalIn.now = 23 * 60 => evalOut.intensity = 80
             /\ evalIn.now = 6 * 60 + 59 => evalOut.intensity = 80
             /\ evalIn.now = 8 * 60 => evalOut.intensity = 0

\* the evaluator has answered for 21:00 -> 07:00 at 06:59
C3_Witness ==
    /\ evalOut.done
    /\ evalIn.start = HHMM(21, 0)
    /\ evalIn.end = HHMM(7, 0)
    /\ evalIn.now = 6 * 60 + 59
    /\ evalOut.inWindow
    /\ evalOut.intensity = 80

---------------------------------------------------------------------------

\* the step in which cycle s delivers its message to the next tab
CycleSends(s) == cycles[s].pc = "send" /\ cycles'[s] # cycles[s]

\* C4: when the record read has enabled = false, the cycle persists
\* currentIntensity = 0 and isActive = false, the UPDATE_FILTER it builds and
\* every tab it reaches carry intensity 0 and enabled = false, and GET_STATUS
\* answers currentIntensity = 0, whatever the other fields.
C4_DisabledMeansZero ==
    [][/\ \A s \in 1..MaxCycles :
            (CycleContinues(s) /\ ~cycles[s].settings.enabled) =>
                /\ storage'.settings.currentIntensity = 0
                /\ storage'.settings.isActive = FALSE
                /\ ~storage'.settings.enabled
                /\ cycles'[s].pc = "send"
                /\ cycles'[s].msg.intensity = 0
                /\ cycles'[s].msg.enabled = FALSE
       /\ \A s \in 1..MaxCycles :
            (CycleSends(s) /\ ~cycles[s].settings.enabled) =>
                LET t == Head(cycles[s].todo)
                IN  listening[t] =>
                        /\ applied'[t].intensity = 0
                        /\ applied'[t].enabled = FALSE
       /\ (StatusResponds /\ ~query.settings.enabled) =>
                /\ lastResponse'.settings.currentIntensity = 0
                /\ lastResponse'.settings.isActive = FALSE]_vars

\* a disabled record with the override set and a positive intensity has been
\* reconciled and queried
C4_Witness ==
    /\ lastResponse.type = "GET_STATUS"
    /\ ~lastResponse.settings.enabled
    /\ lastResponse.settings.manualActive
    /\ lastResponse.settings.intensity = 80
    /\ \E s \in 1..MaxCycles :
          /\ cycles[s].pc = "send"
          /\ ~cycles[s].settings.enabled
          /\ cycles[s].settings.manualActive
          /\ Len(cycles[s].todo) < NumTabs
    /\ \E t \in Tabs : listening[t]

\* C5 as stated: whenever manualActive = true, the cycle and GET_STATUS
\* compute the user's intensity.
C5_OverrideAlwaysWins ==
    [][/\ \A s \in 1..MaxCycles :
            (CycleContinues(s) /\ cycles[s].settings.manualActive) =>
                storage'.settings.currentIntensity = cycles[s].settings.intensity
       /\ (StatusResponds /\ query.settings.manualActive) =>
                lastResponse'.settings.currentIntensity = query.settings.intensity]_vars

\* C5, amended: whenever enabled = true and manualActive = true, the cycle
\* and GET_STATUS compute the user's intensity, inside the window or not.
C5_OverrideWinsWhenEnabled ==
    [][/\ \A s \in 1..MaxCycles :
            (CycleContinues(s) /\ cycles[s].settings.enabled
                               /\ cycles[s].settings.manualActive) =>
                storage'.settings.currentIntensity = cycles[s].settings.intensity
       /\ (StatusResponds /\ query.settings.enabled
                          /\ query.settings.manualActive) =>
                lastResponse'.settings.currentIntensity = query.settings.intensity]_vars

\* an overridden, enabled record has been reconciled and queried at 08:00,
\* outside its 21:00 -> 07:00 window
C5_Witness ==
    /\ now = 8 * 60
    /\ lastResponse.type = "GET_STATUS"
    /\ lastResponse.settings.enabled
    /\ lastResponse.settings.manualActive
    /\ lastResponse.settings.scheduleType = "manual"
    /\ lastResponse.settings.currentIntensity = 80
    /\ lastWrite.by = "cycle"
    /\ lastWrite.now = now
    /\ storage.settings = lastResponse.settings

\* C6: the currentIntensity and isActive of a GET_STATUS response are those
\* of the formula on the user fields of the record read and the minute of
\* the call, whatever the stored currentIntensity and isActive, and they are
\* what a reconciliation cycle at that instant on that record persists.
C6_StatusRecomputed ==
    [][StatusResponds =>
          LET r == query.settings
              a == lastResponse'.settings
              c == updateFilterSettings(r, now, today)
              inWindow == WithinWindow(MinuteOfDay(a.startTime),
                                       MinuteOfDay(a.endTime), now)
          IN  /\ a.currentIntensity = EffectiveIntensity(r, inWindow)
              /\ a.isActive = (a.currentIntensity > 0)
              /\ a.currentIntensity = c.currentIntensity
              /\ a.isActive = c.isActive]_vars

\* GET_STATUS has answered 0 at 08:00 for a stored record whose cached
\* currentIntensity is still the 80 of 23:00
C6_Witness ==
    /\ now = 8 * 60
    /\ lastResponse.type = "GET_STATUS"
    /\ storage.present
    /\ storage.settings.currentIntensity = 80
    /\ storage.settings.isActive
    /\ lastResponse.settings.currentIntensity = 0
    /\ ~lastResponse.settings.isActive
    /\ lastResponse.settings.intensity = 80
    /\ [lastResponse.settings EXCEPT !.currentIntensity = 80, !.isActive = TRUE]
          = storage.settings

---------------------------------------------------------------------------

\* the cycle that the answering UPDATE_SETTINGS handler has just called
StartedCycle(s) ==
    /\ cycles[s].pc = "idle"
    /\ cycles'[s].pc = "get"
    /\ cycles'[s].settings = MergeDefaults(storage)

\* C7 as stated: when UPDATE_SETTINGS reports success, the reconciliation it
\* ran has persisted the derived fields and finished its broadcast.
C7_ReconciledBeforeResponse ==
    [][UpdateResponds =>
          /\ lastWrite'.by = "cycle"
          /\ \A s \in 1..MaxCycles : cycles'[s].pc = "idle"]_vars

\* C7, amended: UPDATE_SETTINGS writes the new record and, when that write
\* has resolved, calls the reconciliation and reports success in the same
\* turn: at the response the reconciliation has issued its storage read and
\* nothing more; its persist and its broadcast come after the response.
C7_ReconciliationStartedAtResponse ==
    [][UpdateResponds =>
          /\ lastResponse' = [type |-> "UPDATE_SETTINGS", success |-> TRUE]
          /\ \E s \in 1..MaxCycles : StartedCycle(s)
          /\ storage' = storage
          /\ lastWrite' = lastWrite
          /\ applied' = applied]_vars

\* UPDATE_SETTINGS has answered while the cycle it called awaits its read of
\* the record just written
C7_Witness ==
    /\ lastResponse.type = "UPDATE_SETTINGS"
    /\ lastWrite.by = "update"
    /\ update.pc = "idle"
    /\ \E s \in 1..MaxCycles :
          /\ cycles[s].pc = "get"
          /\ cycles[s].settings = storage.settings
          /\ ~cycles[s].settings.enabled

\* C8 as stated: a cycle never changes the persisted startTime and endTime,
\* also not in auto mode.
C8_ManualTimesKept ==
    [][\A s \in 1..MaxCycles : CycleContinues(s) =>
          /\ storage'.settings.startTime = cycles[s].settings.startTime
          /\ storage'.settings.endTime = cycles[s].settings.endTime]_vars

\* the window the cycle is to use for record r on day d: sunset -> sunrise
\* when scheduleType is auto and both coordinates are given, else the stored
\* startTime -> endTime
SelectedWindow(r, d) ==
    IF r.scheduleType = "auto" /\ r.latitude # Null /\ r.longitude # Null
    THEN LET sun == calculateSunTimes(r.latitude[1], r.longitude[1], d)
         IN  <<sun.sunset, sun.sunrise>>
    ELSE <<r.startTime, r.endTime>>

ScheduledIntensity(r, d, n) ==
    LET win == SelectedWindow(r, d)
    IN  IF WithinWindow(MinuteOfDay(win[1]), MinuteOfDay(win[2]), n)
        THEN r.intensity
        ELSE 0

\* C9 as stated: with scheduleType = auto and both coordinates non-null (0
\* included) the cycle and GET_STATUS use the solar window, otherwise the
\* stored one.
C9_WindowSelection ==
    [][/\ \A s \in 1..MaxCycles :
            (CycleContinues(s) /\ cycles[s].settings.enabled
                               /\ ~cycles[s].settings.manualActive) =>
                storage'.settings.currentIntensity =
                    ScheduledIntensity(cycles[s].settings, today, now)
       /\ (StatusResponds /\ query.settings.enabled
                          /\ ~query.settings.manualActive) =>
                lastResponse'.settings.currentIntensity =
                    ScheduledIntensity(query.settings, today, now)]_vars

\* C10: a cycle that reads the record the cycle before it persisted, in the
\* same minute, persists the same record and builds the same message.
C10_CycleIdempotent ==
    [][\A s \in 1..MaxCycles :
          (CycleContinues(s) /\ lastWrite'.repeat) =>
              /\ storage' = storage
              /\ lastWrite'.msg = lastWrite.msg
              /\ cycles'[s].msg = lastWrite.msg]_vars

\* two cycles in a row in one minute, on an auto record with coordinates
\* whose window is the solar one and is active
C10_Witness ==
    /\ lastWrite.by = "cycle"
    /\ lastWrite.repeat
    /\ lastWrite.now = now
    /\ useSunTimes(storage.settings)
    /\ storage.settings.currentIntensity = 40
    /\ \E s \in 1..MaxCycles :
          cycles[s].pc = "send" /\ cycles[s].settings = storage.settings

---------------------------------------------------------------------------

\* C11: a send of the broadcast that fails (the tab has no listener) changes
\* nothing, is not repeated, and the loop goes on to the next eligible tab
\* with the same message; every eligible tab is in the loop; no send step
\* touches the persisted record.
C11_BroadcastIsolation ==
    [][\A s \in 1..MaxCycles :
          /\ CycleContinues(s) => cycles'[s].todo = sendList
          /\ CycleSends(s) =>
                LET c == cycles[s]
                    t == Head(c.todo)
                IN  /\ storage' = storage
                    /\ lastWrite' = lastWrite
                    /\ ~listening[t] => applied' = applied
                    /\ listening[t] =>
                          applied' = [applied EXCEPT ![t] = applyMessage(c.msg)]
                    /\ IF Tail(c.todo) = <<>>
                       THEN cycles'[s] = NoCycle
                       ELSE /\ cycles'[s].pc = "send"
                            /\ cycles'[s].todo = Tail(c.todo)
                            /\ cycles'[s].msg = c.msg]_vars

\* the send to tab 1 was rejected (no content script there) and the same
\* cycle has gone on to tab 2, which shows the filter of the persisted record
C11_Witness ==
    /\ ~listening[1]
    /\ applied[1] = NoFilter
    /\ listening[2]
    /\ lastWrite.by = "cycle"
    /\ applied[2] = applyMessage(lastWrite.msg)
    /\ applied[2].intensity = 80
    /\ storage.settings.currentIntensity = 80
    /\ \A s \in 1..MaxCycles : cycles[s].pc = "idle"

---------------------------------------------------------------------------

\* C12 as stated: the sends of a broadcast do not wait for one another (while
\* the send to one tab is unresolved, the send to every other eligible tab
\* has been issued), and a broadcast in progress does not keep the next tick
\* from starting its cycle.
C12_SendsDoNotWait ==
    \A s \in 1..MaxCycles :
        cycles[s].pc = "send" =>
            /\ notSentYet(cycles[s]) = <<>>
            /\ FreeSlots # {} => ENABLED Tick

---------------------------------------------------------------------------

\* C13: a cycle writes back the record it computed from its own read,
\* whatever the storage holds by then: nothing compares the two, so a write
\* made by UPDATE_SETTINGS between the read and the write of a cycle is
\* overwritten (the witness is such an interleaving).
C13_CycleWritesWithoutCheck ==
    [][\A s \in 1..MaxCycles : CycleContinues(s) =>
          /\ storage'.settings =
                updateFilterSettings(cycles[s].settings, now, today)
          /\ \A f \in {"enabled", "mode", "scheduleType", "latitude",
                       "longitude", "intensity", "manualActive"} :
                storage'.settings[f] = cycles[s].settings[f]]_vars

\* UPDATE_SETTINGS stored a record with other user fields and has reported
\* success; every handler has finished; the persisted user fields are those
\* from before the update, written back by a cycle that had read them
C13_Witness ==
    /\ lastResponse = [type |-> "UPDATE_SETTINGS", success |-> TRUE]
    /\ lastWrite.by = "cycle"
    /\ lastWrite.lost
    /\ Quiet
    /\ UserFields(storage.settings) = UserFields(DEFAULT_SETTINGS)

---------------------------------------------------------------------------

\* a content script starts in tab t
TabStarts(t) == ~listening[t] /\ listening'[t]

\* C14: a content script that starts sends GET_STATUS at once, with three
\* retries in reserve; an attempt that fails costs one retry; and the tab
\* whose request is answered applies (mode, currentIntensity, enabled) of
\* the answer, which is what a broadcast computed at that instant from the
\* same record would have brought it.
C14_ColdStartPull ==
    [][/\ \A t \in Tabs :
            /\ TabStarts(t) => asking'[t] = Retries + 1
            /\ (listening[t] /\ listening'[t] /\ asking'[t] # asking[t]) =>
                  \/ asking'[t] = asking[t] - 1
                  \/ asking'[t] = 0 /\ query'.pc = "get" /\ query'.from = t
                        /\ query'.settings = MergeDefaults(storage)
       /\ (StatusResponds /\ query.from # 0 /\ listening[query.from]) =>
            LET t == query.from
                pulled == lastResponse'.settings
                pushed == updateFilterSettings(query.settings, now, today)
            IN  /\ applied'[t] = [mode |-> pulled.mode,
                                  intensity |-> pulled.currentIntensity,
                                  enabled |-> pulled.enabled
                                      /\ pulled.currentIntensity > 0]
                /\ applied'[t] =
                      applyMessage(filterMessage(pushed,
                                                 pushed.currentIntensity))]_vars

\* tab 1 has started, its own request has been answered, and it shows the
\* filter of the persisted record; tab 2 has no content script
C14_Witness ==
    /\ listening[1]
    /\ asking[1] = 0
    /\ lastWrite.by = "cycle"
    /\ Quiet
    /\ lastResponse.type = "GET_STATUS"
    /\ applied[1] = statusFilter(lastResponse.settings)
    /\ applied[1] = applyMessage(lastWrite.msg)
    /\ applied[1].enabled
    /\ applied[1].intensity = 80
    /\ ~listening[2]

---------------------------------------------------------------------------

\* the filter a tab shows for record r at intensity i
ShownFilter(r, i) == [mode |-> r.mode, intensity |-> i, enabled |-> i > 0]

\* C15: with one tick in every minute and no settings change, once the tick
\* of a minute has run its cycle the persisted intensity and the filter of
\* every listening tab are those of that minute: the user's intensity from
\* the minute the window starts, 0 from the minute it ends.  The clock moves
\* on only after that, so nothing observed is older than one tick interval.
C15_BoundedStaleness ==
    (timer.ticked /\ Quiet) =>
        LET r == storage.settings
            inWindow == WithinWindow(MinuteOfDay(r.startTime),
                                     MinuteOfDay(r.endTime), now)
            due == EffectiveIntensity(r, inWindow)
        IN  /\ r.currentIntensity = due
            /\ r.isActive = (due > 0)
            /\ lastWrite.by = "cycle" /\ lastWrite.now = now
            /\ lastWrite.msg.intensity = due
            /\ \A t \in Tabs : listening[t] => applied[t] = ShownFilter(r, due)

\* the clock has crossed 21:00, the start of the manual window, and the tick
\* of that minute has turned the filter on at the user's intensity
C15_Witness ==
    /\ now = 21 * 60
    /\ timer.ticked
    /\ timer.minutes = 1
    /\ Quiet
    /\ storage.settings.scheduleType = "manual"
    /\ ~storage.settings.manualActive
    /\ storage.settings.intensity = 40
    /\ storage.settings.currentIntensity = 40
    /\ applied[1] = [mode |-> "bluelight", intensity |-> 40, enabled |-> TRUE]
    /\ applied[2] = applied[1]

---------------------------------------------------------------------------

\* C16: a cycle whose storage read or write fails ends there: it writes
\* nothing, sends nothing and leaves every tab as it is; the alarm is not
\* touched, so the tick of the next minute fires and its cycle, like every
\* cycle, persists the record it computes and enters the broadcast to all
\* eligible tabs.
C16_StorageFailureNotFatal ==
    [][\A s \in 1..MaxCycles :
          /\ CycleFails(s) =>
                /\ cycles'[s] = NoCycle
                /\ storage' = storage
                /\ lastWrite' = lastWrite
                /\ applied' = applied
                /\ timer'.ticked = timer.ticked
                /\ timer'.minutes = timer.minutes
          /\ CycleContinues(s) =>
                /\ storage'.settings =
                      updateFilterSettings(cycles[s].settings, now, today)
                /\ cycles'[s].todo = sendList
          /\ (timer.failed /\ ~timer.ticked) => ENABLED TickFires]_vars

\* the cycle of the tick at 20:59 failed; the tick at 21:00 has run a whole
\* cycle: record persisted for this minute, filter on in both tabs
C16_Witness ==
    /\ timer.ticked /\ timer.minutes = 1 /\ timer.failed
    /\ now = 21 * 60
    /\ Quiet
    /\ lastWrite.by = "cycle"
    /\ lastWrite.now = now
    /\ storage.settings.scheduleType = "manual"
    /\ ~storage.settings.manualActive
    /\ storage.settings.currentIntensity = 40
    /\ applied[1] = [mode |-> "bluelight", intensity |-> 40, enabled |-> TRUE]
    /\ applied[2] = applied[1]

---------------------------------------------------------------------------
\* the step in which the error callback of the location request runs
LocationFails == popup.button = "detecting" /\ popup'.button = "denied"

\* the step in which the location is requested
LocationAsked == popup.button # "detecting" /\ popup'.button = "detecting"

\* C17: a location request that is denied or times out leaves the core as
\* it was: neither the request nor its error callback sends UPDATE_SETTINGS
\* or starts a cycle, the stored record and the popup's record keep every
\* field, and so the window in effect is the one from before the attempt.
C17_LocationDenialFrame ==
    [][(LocationFails \/ LocationAsked) =>
          /\ update' = update
          /\ cycles' = cycles
          /\ storage' = storage
          /\ lastWrite' = lastWrite
          /\ popup'.settings = popup.settings
          /\ SelectedWindow(MergeDefaults(storage'), today')
                = SelectedWindow(MergeDefaults(storage), today)]_vars

\* a first request found the position and the schedule follows the sun; a
\* second request has just been denied and the solar window is still in
\* effect
C17_Witness ==
    /\ popup.open
    /\ popup.button = "denied"
    /\ storage.present
    /\ MergeDefaults(storage).scheduleType = "auto"
    /\ MergeDefaults(storage).latitude = Num(51500)
    /\ popup.settings # NoSettings
    /\ popup.settings.latitude = Num(51500)
    /\ SelectedWindow(MergeDefaults(storage), today)
          = <<HHMM(15, 55), HHMM(8, 5)>>

---------------------------------------------------------------------------
\* the fields the stored record st holds
StoredFields(st) == IF st.present THEN DOMAIN st.settings ELSE {}

\* r has every field of the defaults and of the stored record st, each with
\* the stored value when st holds the field and with its default otherwise
MergedOverDefaults(r, st) ==
    /\ DOMAIN r = DOMAIN DEFAULT_SETTINGS \cup StoredFields(st)
    /\ \A f \in DOMAIN r :
          r[f] = IF f \in StoredFields(st) THEN st.settings[f]
                 ELSE DEFAULT_SETTINGS[f]

\* the steps in which a handler issues its read of the record
CycleReads(s) == cycles[s].pc = "idle" /\ cycles'[s].pc = "get"
StatusReads == query.pc = "idle" /\ query'.pc = "get"
ToggleReads == toggle.pc = "idle" /\ toggle'.pc = "get"
TabLoadReads == loaded.pc = "idle" /\ loaded'.pc = "get"

\* C18: every reader works on the stored record merged over the defaults
\* field by field, whether the record is missing, partial or complete:
\* updateFilter (reading the record as its caller left it), GET_STATUS,
\* TOGGLE and the tab-load handler.
C18_ReadMergesOverDefaults ==
    [][/\ \A s \in 1..MaxCycles :
             CycleReads(s) => MergedOverDefaults(cycles'[s].settings, storage')
       /\ StatusReads => MergedOverDefaults(query'.settings, storage)
       /\ ToggleReads => MergedOverDefaults(toggle'.settings, storage)
       /\ TabLoadReads => MergedOverDefaults(loaded'.settings, storage)]_vars

\* the popup sent { enabled: false } before its GET_STATUS was answered;
\* the cycle that follows has read it with every other field at its default
C18_Witness ==
    /\ storage.present
    /\ DOMAIN storage.settings = {"enabled"}
    /\ ~storage.settings.enabled
    /\ \E s \in 1..MaxCycles :
          /\ cycles[s].pc = "get"
          /\ cycles[s].settings = [DEFAULT_SETTINGS EXCEPT !.enabled = FALSE]

---------------------------------------------------------------------------
\* C19: in every persisted record isActive = (currentIntensity > 0), over
\* install, startup, ticks, TOGGLE, tab loads and the UPDATE_SETTINGS of
\* the popup.  A record holds both derived fields or neither; one that
\* holds neither (sent by the popup before it got a GET_STATUS response)
\* reads with both at their defaults, false and 0.
C19_IsActiveDerived ==
    storage.present =>
        /\ ("isActive" \in DOMAIN storage.settings)
              <=> ("currentIntensity" \in DOMAIN storage.settings)
        /\ MergeDefaults(storage).isActive
              = (MergeDefaults(storage).currentIntensity > 0)

\* the popup got its record at 23:00, inside the window (intensity 80 in
\* effect, isActive true), and the user switched the master toggle off: the
\* record it sent is persisted, the derived fields as GET_STATUS computed
\* them
C19_Witness ==
    /\ storage.present
    /\ lastWrite.by = "update"
    /\ storage.settings = popup.settings
    /\ DOMAIN DEFAULT_SETTINGS \subseteq DOMAIN storage.settings
    /\ ~storage.settings.enabled
    /\ storage.settings.isActive
    /\ storage.settings.currentIntensity = 80

---------------------------------------------------------------------------
\* C20 as stated: around a boundary of the scheduled window the intensity
\* computed by successive ticks passes through intermediate values: with the
\* filter enabled and no manual override, the cycle of a tick never takes
\* the intensity persisted by the tick before it from 0 straight to the
\* user's intensity (ramp-up) nor from the user's intensity straight to 0
\* (fade-out).
C20_GradualRamp ==
    [][\A s \in 1..MaxCycles :
          (/\ CycleContinues(s)
           /\ lastWrite.by = "cycle"
           /\ storage.settings.enabled
           /\ ~storage.settings.manualActive) =>
             LET old == storage.settings.currentIntensity
                 new == storage'.settings.currentIntensity
                 full == storage.settings.intensity
             IN  /\ ~(old = 0 /\ new = full)
                 /\ ~(old = full /\ new = 0)]_vars

---------------------------------------------------------------------------
\* the fields C21 names, of the record st as a reader finds it
NamedUserFields(st) ==
    [f \in {"enabled", "mode", "scheduleType", "intensity", "manualActive",
            "latitude", "longitude"} |-> MergeDefaults(st)[f]]

\* the step in which onInstalled runs
InstallRuns == ~installed /\ installed'

---------------------------------------------------------------------------
\* a zero-padded "HH:MM" with HH in 00..23 and MM in 00..59
ValidTime(t) ==
    /\ Len(t) = 5
    /\ t[3] = ":"
    /\ \A i \in {1, 2, 4, 5} : \E d \in 0..9 : t[i] = DigitChar(d)
    /\ DigitVal(t[1]) * 10 + DigitVal(t[2]) \in 0..23
    /\ DigitVal(t[4]) * 10 + DigitVal(t[5]) \in 0..59

\* C22: the solar time estimator always yields a valid pair: the cosine of
\* the hour angle is within [-1, 1] when acos is taken, also at and near
\* the poles, and sunrise, sunset and the formatting of any minute value,
\* negative or from 1440 on, are zero-padded HH:MM with HH in 00..23 and MM
\* in 00..59.
C22_SunTimesValid ==
    evalOut.done =>
        /\ evalOut.clamped >= -1000000
        /\ evalOut.clamped <= 1000000
        /\ ValidTime(evalOut.sun.sunrise)
        /\ ValidTime(evalOut.sun.sunset)
        /\ ValidTime(evalOut.time)

\* the north pole at the date line on the December solstice (polar night,
\* hour angle 0: sunrise = sunset = solar noon = 1440 minutes, wrapped to
\* 00:00), and 2160.25 minutes formatted as 12:00
C22_Witness ==
    /\ evalOut.done
    /\ evalIn.lat = 90000
    /\ evalIn.lng = -180000
    /\ today = 355
    /\ evalOut.clamped = 1000000
    /\ evalOut.sun = [sunrise |-> HHMM(0, 0), sunset |-> HHMM(0, 0)]
    /\ evalIn.mins = 2160250
    /\ evalOut.time = HHMM(12, 0)

---------------------------------------------------------------------------
\* C23 as stated: the write of a reconciliation cycle changes only
\* currentIntensity and isActive of the persisted record, every other field
\* is written back as stored; so a manual override that is set is still set
\* after the cycle of any tick, across window boundaries.
C23_CycleFrame ==
    [][\A s \in 1..MaxCycles :
          (CycleContinues(s) /\ storage.present) =>
             /\ \A f \in DOMAIN storage.settings
                          \ {"currentIntensity", "isActive"} :
                   storage'.settings[f] = storage.settings[f]
             /\ storage.settings.manualActive =>
                   storage'.settings.manualActive]_vars

---------------------------------------------------------------------------
\* every web tab has applied the filter data of the persisted record: mode,
\* currentIntensity, enabled and currentIntensity > 0
TabsShowRecord ==
    \A t \in Tabs : eligible(t) => applied[t] = statusFilter(storage.settings)

---------------------------------------------------------------------------
\* the step in which tab t gets the response to its GET_STATUS
StatusReaches(t) == StatusResponds /\ query.from = t

\* C25 as stated: the cold-start pull cannot regress a target.  When tab t
\* shows the broadcast of the record persisted last, and the response to
\* its GET_STATUS was computed from a read made before the user fields of
\* that record were stored, the response leaves the applied state as it is.
C25_PullDoesNotRegress ==
    [][\A t \in Tabs :
          (/\ StatusReaches(t)
           /\ lastWrite.by = "cycle"
           /\ applied[t] = applyMessage(lastWrite.msg)
           /\ UserFields(query.settings) # UserFields(storage.settings)) =>
              applied'[t] = applied[t]]_vars

---------------------------------------------------------------------------
\* the treatments a document shows: the overlay at opacity 1, a dark-mode
\* style with text, a mode-filter style with text
Active(dom) ==
    (IF dom.opacity = 1 THEN {"overlay"} ELSE {})
    \cup (IF dom.darkmode # <<>> THEN {"darkmode"} ELSE {})
    \cup (IF dom.filtermode # <<>> THEN {"filtermode"} ELSE {})

\* what is to be seen of them: a hidden overlay's background is not
Shown(dom) ==
    [overlay |-> IF dom.opacity = 1 THEN dom.background ELSE <<>>,
     darkmode |-> dom.darkmode, filtermode |-> dom.filtermode]

\* the content script of tab t has applied data at least once
HasApplied(t) == listening[t] /\ applied[t].mode \in Modes

\* the modes the copy of the script in tab t has a branch for
Recognised(t) ==
    {"bluelight", "darkmode", "both"}
    \cup (IF page[t].script = 2 THEN DOMAIN FILTER_KEYFRAMES ELSE {})

\* C26: after a target has applied data with enabled = false or
\* intensity <= 0, no treatment is active on it: the overlay has opacity 0,
\* the dark-mode style and the mode-filter style are empty, whatever was
\* active before.
C26_ClearedWhenOff ==
    \A t \in Tabs :
        (HasApplied(t) /\ (~applied[t].enabled \/ applied[t].intensity <= 0)) =>
            /\ page[t].dom.opacity = 0
            /\ page[t].dom.darkmode = <<>>
            /\ page[t].dom.filtermode = <<>>

\* a tab that is cleared after its overlay had been coloured
C26_Witness ==
    \E t \in Tabs :
        /\ HasApplied(t)
        /\ ~applied[t].enabled
        /\ page[t].dom.background # <<>>
        /\ Active(page[t].dom) = {}

\* C27: after a target has applied data with enabled = true, intensity > 0
\* and a mode its script recognises, exactly that mode's treatments are
\* active: bluelight the overlay only, darkmode the dark-mode style only,
\* both the overlay and the dark-mode style, and sleep-prep,
\* reduce-eye-strain and reader-mode the mode-filter style only.
C27_ModeExclusive ==
    \A t \in Tabs :
        (/\ HasApplied(t)
         /\ applied[t].enabled
         /\ applied[t].intensity > 0
         /\ applied[t].mode \in Recognised(t)) =>
            Active(page[t].dom) =
                IF applied[t].mode = "bluelight" THEN {"overlay"}
                ELSE IF applied[t].mode = "darkmode" THEN {"darkmode"}
                ELSE IF applied[t].mode = "both" THEN {"overlay", "darkmode"}
                ELSE {"filtermode"}

\* a tab that shows a named filter only, after its overlay had been coloured
C27_Witness ==
    \E t \in Tabs :
        /\ HasApplied(t)
        /\ applied[t].enabled
        /\ applied[t].mode = "sleep-prep"
        /\ page[t].dom.background # <<>>
        /\ Active(page[t].dom) = {"filtermode"}

\* C28 as stated: what a target shows after applying data is determined by
\* the data alone, for every mode: two targets that applied the same data
\* last show the same, whatever they showed before.
C28_HistoryIndependent ==
    \A t, u \in Tabs :
        (HasApplied(t) /\ HasApplied(u) /\ applied[t] = applied[u]) =>
            Shown(page[t].dom) = Shown(page[u].dom)

---------------------------------------------------------------------------
\* the data a content script derives from the GET_STATUS response for
\* record r at the given instant
PulledData(r, nowMin, dayOfYear) ==
    statusFilter(getStatusSettings(r, nowMin, dayOfYear))

\* the data of the UPDATE_FILTER a cycle broadcasts for record r at the
\* given instant
PushedData(r, nowMin, dayOfYear) ==
    LET out == updateFilterSettings(r, nowMin, dayOfYear)
    IN  applyMessage(filterMessage(out, out.currentIntensity))

\* C29: for the same record and instant the (mode, intensity, enabled) a
\* content script derives from a GET_STATUS response equals that of the
\* UPDATE_FILTER the reconciliation cycle broadcasts: the tab that gets its
\* response applies what a cycle would have sent it, and the message a cycle
\* builds is what a response would have brought.
C29_PullEqualsPush ==
    [][/\ \A t \in Tabs :
            (StatusReaches(t) /\ listening[t]) =>
                applied'[t] = PushedData(query.settings, now, today)
       /\ \A s \in 1..MaxCycles :
            CycleContinues(s) =>
                applyMessage(cycles'[s].msg) =
                    PulledData(cycles[s].settings, now, today)]_vars

\* tab 1 shows the filter by its own GET_STATUS, tab 2, which has not asked
\* yet, by the broadcast of the last cycle, and they show the same
C29_Witness ==
    /\ Quiet
    /\ listening[1] /\ listening[2]
    /\ asking[1] = 0
    /\ asking[2] > 0
    /\ lastResponse.type = "GET_STATUS"
    /\ lastWrite.by = "cycle"
    /\ applied[1] = statusFilter(lastResponse.settings)
    /\ applied[2] = applyMessage(lastWrite.msg)
    /\ applied[1] = applied[2]
    /\ applied[1].enabled

---------------------------------------------------------------------------
\* the step in which the tabs.onUpdated handler gets its record and pushes
\* to the tab, or does not
TabLoadPushes == loaded.pc = "get" /\ loaded'.pc = "idle"

\* the intensity of the UPDATE_FILTER the tabs.onUpdated handler sends for
\* record r, 0 when it sends none
loadIntensity(r, nowMin) ==
    IF r.enabled /\ tabIntensity(r, nowMin) > 0
    THEN tabIntensity(r, nowMin)
    ELSE 0

\* C30 as stated: for every persisted record and instant the intensity the
\* tabs.onUpdated handler pushes to a tab that finished loading, 0 when it
\* pushes nothing, is the currentIntensity GET_STATUS returns for the same
\* record and instant, the auto schedule with coordinates included.
C30_TabLoadAgreesWithStatus ==
    [][TabLoadPushes =>
          loadIntensity(loaded.settings, now) =
              getStatusSettings(loaded.settings, now, today).currentIntensity]_vars

---------------------------------------------------------------------------
\* C31 as stated: GET_STATUS is read-only.  Neither the step that takes the
\* request nor the step that answers it writes the settings record, starts
\* or advances a cycle, or changes what any tab has applied.
C31_StatusReadOnly ==
    [][(StatusReads \/ StatusResponds) =>
          /\ storage' = storage
          /\ cycles' = cycles
          /\ lastWrite' = lastWrite
          /\ applied' = applied]_vars

\* C31, amended: the handler of GET_STATUS writes nothing and sends no
\* UPDATE_FILTER; the one applied state a status query can change is that of
\* the content script that asked, which applies the answer itself.
C31_StatusChangesOnlyRequester ==
    [][(StatusReads \/ StatusResponds) =>
          /\ storage' = storage
          /\ cycles' = cycles
          /\ lastWrite' = lastWrite
          /\ \A t \in Tabs :
                applied'[t] # applied[t] =>
                    /\ StatusResponds
                    /\ t = query.from
                    /\ applied'[t] = statusFilter(lastResponse'.settings)]_vars

\* the popup's GET_STATUS has been answered at 08:00 with intensity 0,
\* while the record and tab 1 still hold the 80 of the last cycle
C31_Witness ==
    /\ Quiet
    /\ lastResponse.type = "GET_STATUS"
    /\ lastResponse.settings.currentIntensity = 0
    /\ lastWrite.by = "cycle"
    /\ storage.settings.currentIntensity = 80
    /\ listening[1]
    /\ applied[1] = applyMessage(lastWrite.msg)
    /\ applied[1].intensity = 80
    /\ asking[1] > 0

---------------------------------------------------------------------------
\* C32 as stated: every settings record the worker has returned to a
\* client, in the response to GET_STATUS or to TOGGLE, has
\* currentIntensity = 0 when enabled is false, and
\* isActive = (currentIntensity > 0).
C32_ResponsesDerived ==
    lastResponse.type \in {"GET_STATUS", "TOGGLE"} =>
        /\ ~lastResponse.settings.enabled =>
              lastResponse.settings.currentIntensity = 0
        /\ lastResponse.settings.isActive =
              (lastResponse.settings.currentIntensity > 0)

---------------------------------------------------------------------------
\* C33: however often the content script is evaluated in a page, only the
\* first evaluation initialises: the page has at most one UPDATE_FILTER
\* listener and has started at most one requestStatus(3) sequence, exactly
\* one of each once the script was evaluated, by the copy evaluated first.
C33_SingleInitialisation ==
    \A t \in Tabs :
        /\ page[t].listeners <= 1
        /\ page[t].pulls <= 1
        /\ page[t].evaluations > 0 =>
              /\ page[t].listeners = 1
              /\ page[t].pulls = 1
              /\ page[t].script \in Scripts

\* the script was evaluated three times in the page of tab 1
C33_Witness ==
    /\ page[1].evaluations >= 3
    /\ page[1].listeners = 1
    /\ page[1].pulls = 1
    /\ listening[1]

\* C34: the page sends at most Retries + 1 = 4 GET_STATUS in all; it sends
\* one only while attempts are left, which costs one attempt when the
\* request fails and all of them when it gets through; and attempts are
\* granted only by the evaluation that initialises the page.
C34_RetryBounded ==
    [][\A t \in Tabs :
          /\ page'[t].attempts <= Retries + 1
          /\ page'[t].attempts > page[t].attempts =>
                /\ asking[t] > 0
                /\ \/ asking'[t] = asking[t] - 1 /\ query' = query
                   \/ asking'[t] = 0 /\ query'.pc = "get" /\ query'.from = t
          /\ asking'[t] > asking[t] =>
                /\ page[t].script = 0
                /\ page'[t].attempts = 0
                /\ asking'[t] = Retries + 1]_vars

\* four requests of tab 1 have failed: it has stopped asking and no answer
\* has come
C34_Witness ==
    /\ page[1].attempts = Retries + 1
    /\ asking[1] = 0
    /\ listening[1]
    /\ query.pc = "idle"
    /\ lastResponse = NoResponse

---------------------------------------------------------------------------
\* C35: over any number of startups of the service worker the alarm
\* nightguard-tick is created only when none of that name exists: no
\* creation replaces an existing alarm, each creation happens in a state
\* without an alarm, and there is never more than one
C35_AlarmCreatedOnlyWhenAbsent ==
    /\ [](timer.resets = 0 /\ timer.alarms <= 1)
    /\ [][timer'.created # timer.created =>
            /\ timer.alarms = 0
            /\ timer'.alarms = 1
            /\ timer'.created = timer.created + 1]_vars

\* the worker has started a second time, found the alarm of its first start
\* and created none
C35_Witness ==
    /\ timer.startups = 2
    /\ timer.check = "idle"
    /\ timer.alarms = 1
    /\ timer.created = 1

---------------------------------------------------------------------------
\* C36: a window whose start and end are the same minute contains no minute
\* of the day: isInActiveWindow is false, and for a record with enabled set
\* and manualActive unset the reconciliation computes intensity 0
C36_DegenerateWindow ==
    (/\ evalOut.done
     /\ timeToMinutes(evalIn.start) = timeToMinutes(evalIn.end)
     /\ evalSettings(evalIn).enabled
     /\ ~evalSettings(evalIn).manualActive) =>
        /\ ~evalOut.inWindow
        /\ evalOut.intensity = 0

\* a window 21:00 -> 21:00 evaluated at 21:00, its own start
C36_Witness ==
    /\ evalOut.done
    /\ evalIn.start = HHMM(21, 0)
    /\ evalIn.end = HHMM(21, 0)
    /\ evalIn.now = 21 * 60
    /\ ~evalOut.inWindow
    /\ evalOut.intensity = 0

---------------------------------------------------------------------------
\* C37: timerEnabled has no effect on the core: for records that differ only
\* in timerEnabled (absent, true, false) the reconciliation cycle and
\* GET_STATUS compute the same currentIntensity and isActive at the same
\* instant; with the manual schedule and timerEnabled false the filter is
\* still on inside the stored window
C37_TimerFieldIgnored ==
    evalOut.done =>
        /\ \A m, n \in TimerClicks :
              /\ evalOut.cycle[m].currentIntensity =
                     evalOut.cycle[n].currentIntensity
              /\ evalOut.cycle[m].isActive = evalOut.cycle[n].isActive
              /\ evalOut.status[m].currentIntensity =
                     evalOut.status[n].currentIntensity
              /\ evalOut.status[m].isActive = evalOut.status[n].isActive
        /\ (/\ evalIn.settings.enabled
            /\ ~evalIn.settings.manualActive
            /\ evalIn.settings.scheduleType = "manual"
            /\ isInActiveWindow(evalIn.settings.startTime,
                                evalIn.settings.endTime, evalIn.now)) =>
              /\ evalOut.cycle[2].timerEnabled = FALSE
              /\ evalOut.cycle[2].isActive
              /\ evalOut.cycle[2].currentIntensity = evalIn.settings.intensity
              /\ evalOut.status[2].isActive
              /\ evalOut.status[2].currentIntensity = evalIn.settings.intensity

\* the manual schedule 21:00 -> 07:00 read at 23:00: the timer set after one
\* click, deactivated after two, the filter on at 80 in both cases
C37_Witness ==
    /\ evalOut.done
    /\ evalIn.now = 23 * 60
    /\ evalIn.settings.enabled
    /\ ~evalIn.settings.manualActive
    /\ evalIn.settings.scheduleType = "manual"
    /\ "timerEnabled" \notin DOMAIN evalOut.cycle[0]
    /\ evalOut.cycle[1].timerEnabled = TRUE
    /\ evalOut.cycle[2].timerEnabled = FALSE
    /\ evalOut.cycle[1].currentIntensity = 80
    /\ evalOut.cycle[2].currentIntensity = 80
    /\ evalOut.cycle[2].isActive
    /\ evalOut.status[2].isActive

===========================================================================
